---- MODULE Spec2Model ----
(***************************************************************************)
(* A model of configfile.Section / configfile.ConfigFile: the section tree, *)
(* the merge (import) engine, the line parser and the interpolation         *)
(* resolver.                                                                *)
(*                                                                          *)
(* Text (option names, section names, values, file lines) is modelled as a  *)
(* sequence of one-character strings, so that regular expressions, case     *)
(* folding and the interpolation tokenizer are computed character by        *)
(* character as the code computes them.  An ordered dictionary is a         *)
(* sequence of records [k |-> key, v |-> value] with pairwise different     *)
(* keys; a section (and a "compatible object") is a record                  *)
(* [opts |-> ordered dictionary of values,                                  *)
(*  subs |-> ordered dictionary of sections].                               *)
(***************************************************************************)
EXTENDS Integers, Sequences, FiniteSets, TLC

VARIABLES
    root,                \* the root Section of the ConfigFile object
    IGNORE_CASE,         \* Section._IGNORE_CASE (the same in every section)
    INHERIT_OPTIONS,     \* Section._INHERIT_OPTIONS
    ENABLE_SUBSECTIONS,  \* Section._ENABLE_SUBSECTIONS
    SAFE_CALLS,          \* Section._SAFE_CALLS
    cfile,               \* the file that the calls read and write: whether
                         \* it exists, and its text
    last,                \* the last call: its arguments, the tree before it,
                         \* its result and the exception it raised
    ncalls               \* the number of calls made so far

vars ==
    <<root, IGNORE_CASE, INHERIT_OPTIONS, ENABLE_SUBSECTIONS, SAFE_CALLS, cfile,
      last, ncalls>>

\* a file that does not exist: open(cfile, 'r') raises IOError
NoFile == [exists |-> FALSE, text |-> <<>>]

-----------------------------------------------------------------------------
(* Characters and str.lower()                                              *)

\* the upper-case letter of each lower-case letter
UpperOf ==
    [a |-> "A", b |-> "B", c |-> "C", d |-> "D", e |-> "E", f |-> "F",
     g |-> "G", h |-> "H", i |-> "I", j |-> "J", k |-> "K", l |-> "L",
     m |-> "M", n |-> "N", o |-> "O", p |-> "P", q |-> "Q", r |-> "R",
     s |-> "S", t |-> "T", u |-> "U", v |-> "V", w |-> "W", x |-> "X",
     y |-> "Y", z |-> "Z"]

LowerLetters == DOMAIN UpperOf
UpperLetters == {UpperOf[ch] : ch \in LowerLetters}
Digits == {"0", "1", "2", "3", "4", "5", "6", "7", "8", "9"}
Whitespace == {" ", "\t", "\n"}

LowerCh(ch) ==
    IF ch \in UpperLetters
    THEN CHOOSE l \in LowerLetters : UpperOf[l] = ch
    ELSE ch

lower(s) == [i \in DOMAIN s |-> LowerCh(s[i])]

-----------------------------------------------------------------------------
(* The regular expressions of names and values                             *)

\* "$" of a Python regular expression also matches before a final newline.
BeforeFinalNewline(s) ==
    IF Len(s) > 0 /\ s[Len(s)] = "\n" THEN SubSeq(s, 1, Len(s) - 1) ELSE s

IdentStart == LowerLetters \cup UpperLetters \cup {"_"}
IdentChar == IdentStart \cup Digits

\* _OPTION = r'^[a-zA-Z_]+[a-zA-Z0-9_]*$'
OPTION_RE(s) ==
    LET w == BeforeFinalNewline(s) IN
    /\ Len(w) > 0
    /\ w[1] \in IdentStart
    /\ \A i \in 2..Len(w) : w[i] \in IdentChar

\* _SECTION_PLAIN = r'^[a-zA-Z_]+[a-zA-Z0-9_]*$'
SECTION_PLAIN_RE(s) == OPTION_RE(s)

\* _SECTION_SUB = r'^[a-zA-Z_]+(?:\.?[a-zA-Z0-9_]+)*$'
SECTION_SUB_RE(s) ==
    LET w == BeforeFinalNewline(s) IN
    /\ Len(w) > 0
    /\ w[1] \in IdentStart
    /\ \A i \in 2..Len(w) : w[i] \in IdentChar \cup {"."}
    /\ \A i \in 2..Len(w) : w[i] = "." => (i < Len(w) /\ w[i + 1] # ".")

\* self._SECTION, chosen in Section.__init__
SECTION_RE(s) ==
    IF ENABLE_SUBSECTIONS THEN SECTION_SUB_RE(s) ELSE SECTION_PLAIN_RE(s)

\* _VALUE = r'^.*$': "." does not match a newline
VALUE_RE(s) ==
    LET w == BeforeFinalNewline(s) IN \A i \in 1..Len(w) : w[i] # "\n"

-----------------------------------------------------------------------------
(* collections.OrderedDict                                                 *)

\* the position of key k in d, 0 when d has no such key
DictIndex(d, k) ==
    IF \E i \in DOMAIN d : d[i].k = k
    THEN CHOOSE i \in DOMAIN d : d[i].k = k
    ELSE 0

\* d[k] = v: a present key keeps its position, a new key goes last
DictSet(d, k, v) ==
    IF DictIndex(d, k) # 0
    THEN [d EXCEPT ![DictIndex(d, k)].v = v]
    ELSE Append(d, [k |-> k, v |-> v])

\* del d[k]
DictDel(d, k) ==
    LET i == DictIndex(d, k) IN
    SubSeq(d, 1, i - 1) \o SubSeq(d, i + 1, Len(d))

\* "for o in d: if name.lower() == o.lower(): ... break": the position of
\* the first key equal to name ignoring case, 0 when the loop reaches its
\* else branch
FirstLowerMatch(d, name) ==
    IF \E i \in DOMAIN d : lower(d[i].k) = lower(name)
    THEN CHOOSE i \in DOMAIN d :
            /\ lower(d[i].k) = lower(name)
            /\ \A j \in 1..(i - 1) : lower(d[j].k) # lower(name)
    ELSE 0

\* _EMPTY_SECTION, and a Section as __init__ leaves it
EMPTY_SECTION == [opts |-> <<>>, subs |-> <<>>]

-----------------------------------------------------------------------------
(* Exceptions.  A method that can raise returns a record: the object as    *)
(* the call leaves it (its mutations up to the raise are kept: nothing is  *)
(* rolled back) and exc, the exception raised ("none": it returned).       *)

NoExc == "none"
InvalidObjectError == "InvalidObjectError"
ParsingError == "ParsingError"
NameError == "NameError"
KeyError == "KeyError"
TypeError == "TypeError"
ValueError == "ValueError"

-----------------------------------------------------------------------------
(* The merge engine: Section._import_object and its auxiliary methods      *)

RECURSIVE _import_object(_, _, _, _, _)

\* _import_object_option with "self._options[o] = val" done as a removal
\* and a new insertion
_import_object_option_moves(self, overwrite, add, reset, opt, val) ==
    IF reset
    THEN [self EXCEPT !.opts = DictSet(@, opt, val)]
    ELSE LET i == IF IGNORE_CASE THEN FirstLowerMatch(self.opts, opt)
                  ELSE DictIndex(self.opts, opt) IN
         IF i # 0
         THEN IF overwrite
              THEN [self EXCEPT !.opts =
                        Append(DictDel(@, @[i].k), [k |-> @[i].k, v |-> val])]
              ELSE self
         ELSE IF add
              THEN [self EXCEPT !.opts = DictSet(@, opt, val)]
              ELSE self

\* Section._import_object_option; self is the section, the result is the
\* section with its _options updated
_import_object_option(self, overwrite, add, reset, opt, val) ==
    IF reset
    THEN [self EXCEPT !.opts = DictSet(@, opt, val)]
    ELSE IF IGNORE_CASE
    THEN LET i == FirstLowerMatch(self.opts, opt) IN
         IF i # 0
         THEN IF overwrite
              THEN [self EXCEPT !.opts[i].v = val]
              ELSE self
         ELSE IF add
              THEN [self EXCEPT !.opts = DictSet(@, opt, val)]
              ELSE self
    ELSE IF DictIndex(self.opts, opt) # 0
    THEN IF overwrite
         THEN [self EXCEPT !.opts = DictSet(@, opt, val)]
         ELSE self
    ELSE IF add
    THEN [self EXCEPT !.opts = DictSet(@, opt, val)]
    ELSE self

\* AttachSubsection with the new subsection attached before its import
AttachSubsection_first(self, sec, r) ==
    [sec |-> [self EXCEPT !.subs = DictSet(@, sec, r.sec)], exc |-> r.exc]

\* "self._subsections[sec] = subsection", reached only when the import
\* into the new subsection, which ended as r, did not raise
AttachSubsection(self, sec, r) ==
    IF r.exc # NoExc
    THEN [sec |-> self, exc |-> r.exc]
    ELSE [sec |-> [self EXCEPT !.subs = DictSet(@, sec, r.sec)],
          exc |-> NoExc]

\* _import_object_subsection_create filling the new Section with the options
\* of secd only
_import_object_subsection_create_shallow(self, overwrite, add, sec, secd) ==
    AttachSubsection(self, sec,
        _import_object(EMPTY_SECTION, [secd EXCEPT !.subs = <<>>], overwrite,
                       add, FALSE))

\* Section._import_object_subsection_create: the new Section is attached to
\* self only after its own import returned
_import_object_subsection_create(self, overwrite, add, sec, secd) ==
    AttachSubsection(self, sec,
        _import_object(EMPTY_SECTION, secd, overwrite, add, FALSE))

\* KeepSubsection with the subsection left as it was when its import raises
KeepSubsection_rolled_back(self, i, r) ==
    IF r.exc # NoExc
    THEN [sec |-> self, exc |-> r.exc]
    ELSE [sec |-> [self EXCEPT !.subs[i].v = r.sec], exc |-> NoExc]

\* the i-th subsection of self as its own import, which ended as r, leaves
\* it: the subsection is changed in place also when the import raises
KeepSubsection(self, i, r) ==
    [sec |-> [self EXCEPT !.subs[i].v = r.sec], exc |-> r.exc]

\* ImportIntoSubsection with the recursive call made only "if overwrite"
ImportIntoSubsection_if_overwrite(self, i, overwrite, add, secd) ==
    IF overwrite
    THEN KeepSubsection(self, i,
             _import_object(self.subs[i].v, secd, overwrite, add, FALSE))
    ELSE [sec |-> self, exc |-> NoExc]

\* the recursive call on an existing subsection, self._subsections[ss]
ImportIntoSubsection(self, i, overwrite, add, secd) ==
    KeepSubsection(self, i,
        _import_object(self.subs[i].v, secd, overwrite, add, FALSE))

\* _import_object_subsection without its "if add" tests
_import_object_subsection_creates(self, overwrite, add, reset, sec, secd) ==
    IF reset
    THEN _import_object_subsection_create(self, overwrite, add, sec, secd)
    ELSE LET i == IF IGNORE_CASE THEN FirstLowerMatch(self.subs, sec)
                  ELSE DictIndex(self.subs, sec) IN
         IF i # 0
         THEN ImportIntoSubsection(self, i, overwrite, add, secd)
         ELSE _import_object_subsection_create(self, overwrite, add, sec,
                                               secd)

\* Section._import_object_subsection
_import_object_subsection(self, overwrite, add, reset, sec, secd) ==
    IF reset
    THEN _import_object_subsection_create(self, overwrite, add, sec, secd)
    ELSE IF IGNORE_CASE
    THEN LET i == FirstLowerMatch(self.subs, sec) IN
         IF i # 0
         THEN ImportIntoSubsection(self, i, overwrite, add, secd)
         ELSE IF add
              THEN _import_object_subsection_create(self, overwrite, add,
                                                    sec, secd)
              ELSE [sec |-> self, exc |-> NoExc]
    ELSE IF DictIndex(self.subs, sec) # 0
    THEN ImportIntoSubsection(self, DictIndex(self.subs, sec), overwrite,
                              add, secd)
    ELSE IF add
    THEN _import_object_subsection_create(self, overwrite, add, sec, secd)
    ELSE [sec |-> self, exc |-> NoExc]

\* "for o in cobj[0]", from the i-th option of the compatible object on
RECURSIVE ImportOptionsLoop(_, _, _, _, _, _)
\* ImportOptionsLoop without the test of the option's name and value
ImportOptionsLoop_unchecked(self, cobj, i, overwrite, add, reset) ==
    IF i > Len(cobj.opts)
    THEN [sec |-> self, exc |-> NoExc]
    ELSE ImportOptionsLoop(
             _import_object_option(self, overwrite, add, reset,
                                   cobj.opts[i].k, cobj.opts[i].v),
             cobj, i + 1, overwrite, add, reset)

ImportOptionsLoop(self, cobj, i, overwrite, add, reset) ==
    IF i > Len(cobj.opts)
    THEN [sec |-> self, exc |-> NoExc]
    ELSE IF OPTION_RE(cobj.opts[i].k) /\ VALUE_RE(cobj.opts[i].v)
    THEN ImportOptionsLoop(
             _import_object_option(self, overwrite, add, reset,
                                   cobj.opts[i].k, cobj.opts[i].v),
             cobj, i + 1, overwrite, add, reset)
    ELSE [sec |-> self, exc |-> InvalidObjectError]

\* "for s in cobj[1]", from the i-th subsection of the compatible object
\* on; r is how the loop went so far: an exception ends it
RECURSIVE ImportSubsectionsLoop(_, _, _, _, _, _)
ImportSubsectionsLoop(r, cobj, i, overwrite, add, reset) ==
    IF r.exc # NoExc \/ i > Len(cobj.subs)
    THEN r
    ELSE IF SECTION_RE(cobj.subs[i].k)
    THEN ImportSubsectionsLoop(
             _import_object_subsection(r.sec, overwrite, add, reset,
                                       cobj.subs[i].k, cobj.subs[i].v),
             cobj, i + 1, overwrite, add, reset)
    ELSE [sec |-> r.sec, exc |-> InvalidObjectError]

\* "if reset:" of Section._import_object
\* ResetSection without the two assignments
ResetSection_keeps(self, reset) == self

ResetSection(self, reset) == IF reset THEN EMPTY_SECTION ELSE self

\* Section._import_object
_import_object(self, cobj, overwrite, add, reset) ==
    ImportSubsectionsLoop(
        ImportOptionsLoop(ResetSection(self, reset), cobj, 1, overwrite,
                          add, reset),
        cobj, 1, overwrite, add, reset)

-----------------------------------------------------------------------------
(* Sections of the tree are addressed by their path from the root: the     *)
(* keys, as stored, of the _subsections dictionaries on the way.           *)

RECURSIVE SectionAt(_, _)
SectionAt(sec, path) ==
    IF path = <<>>
    THEN sec
    ELSE SectionAt(sec.subs[DictIndex(sec.subs, Head(path))].v, Tail(path))

RECURSIVE HasSectionAt(_, _)
HasSectionAt(sec, path) ==
    \/ path = <<>>
    \/ /\ DictIndex(sec.subs, Head(path)) # 0
       /\ HasSectionAt(sec.subs[DictIndex(sec.subs, Head(path))].v,
                       Tail(path))

\* the tree with the section at path replaced by new
RECURSIVE WithSectionAt(_, _, _)
WithSectionAt(sec, path, new) ==
    IF path = <<>>
    THEN new
    ELSE [sec EXCEPT !.subs[DictIndex(sec.subs, Head(path))].v =
                         WithSectionAt(@, Tail(path), new)]

-----------------------------------------------------------------------------
(* Looking options and sections up                                          *)

\* Python's None, and a returned string
None == [some |-> FALSE, v |-> <<>>]
Some(v) == [some |-> TRUE, v |-> v]

\* _get_ancestors with the root first and the parent last
_get_ancestors_root_first(path) ==
    [i \in 1..Len(path) |-> SubSeq(path, 1, i - 1)]

\* Section._get_ancestors of the section at path: the paths of its
\* ancestors, the parent first and the root last
_get_ancestors(path) ==
    [i \in 1..Len(path) |-> SubSeq(path, 1, Len(path) - i)]

\* "for o in s._options: if (...) return s._options[o]" of Section.get: the
\* position of the first option of opts that opt names, 0 if there is none
GetMatch(opts, opt) ==
    IF IGNORE_CASE THEN FirstLowerMatch(opts, opt) ELSE DictIndex(opts, opt)

\* "for s in slist" from the i-th section of slist on; m is the position
\* of the option in that section
RECURSIVE GetLoop(_, _, _, _, _)
GetFound(rt, slist, i, opt, fallback, opts, m) ==
    IF m # 0
    THEN Some(opts[m].v)
    ELSE GetLoop(rt, slist, i + 1, opt, fallback)

GetIn(rt, slist, i, opt, fallback, opts) ==
    GetFound(rt, slist, i, opt, fallback, opts, GetMatch(opts, opt))

GetLoop(rt, slist, i, opt, fallback) ==
    IF i > Len(slist)
    THEN fallback
    ELSE GetIn(rt, slist, i, opt, fallback, SectionAt(rt, slist[i]).opts)

\* Section.get on the section at path of the tree rt; inherit_options is
\* "True", "False" or "None" (not given)
get(rt, path, opt, fallback, inherit_options) ==
    LET inherit == IF inherit_options = "None"
                   THEN INHERIT_OPTIONS
                   ELSE inherit_options = "True"
        slist == IF inherit THEN <<path>> \o _get_ancestors(path)
                 ELSE <<path>>
    IN  GetLoop(rt, slist, 1, opt, fallback)

\* "if item is None: raise KeyError(...) else: return item"
ItemOrKeyError(item) ==
    [value |-> item, exc |-> IF item.some THEN NoExc ELSE KeyError]

\* Section.__getitem__ on the section at path of the tree rt
__getitem__(rt, path, opt) ==
    ItemOrKeyError(get(rt, path, opt, None,
                       IF INHERIT_OPTIONS THEN "True" ELSE "False"))

-----------------------------------------------------------------------------
(* The interpolation resolver: Section._interpolate                        *)

INTERPOLATION_SPECIAL == "$"
INTERPOLATION_SPECIAL_ESC == <<"$", "$">>
INTERPOLATION_START == <<"$", "{">>
INTERPOLATION_SEP == <<"$", ":">>
INTERPOLATION_END == <<"$", "}">>

\* whether one of the four markers starts at position i of s
MarkerAt(s, i) ==
    /\ i < Len(s)
    /\ <<s[i], s[i + 1]>> \in {INTERPOLATION_SPECIAL_ESC, INTERPOLATION_START,
                               INTERPOLATION_SEP, INTERPOLATION_END}

\* re_.split(_INTERPOLATION_SPLIT, s) from position i on, cur being the
\* text collected since the last marker: text, marker, text, ..., text
RECURSIVE SplitFrom(_, _, _)
SplitFrom(s, i, cur) ==
    IF i > Len(s)
    THEN <<cur>>
    ELSE IF MarkerAt(s, i)
    THEN <<cur, <<s[i], s[i + 1]>>>> \o SplitFrom(s, i + 2, <<>>)
    ELSE SplitFrom(s, i + 1, Append(cur, s[i]))

INTERPOLATION_SPLIT(s) == SplitFrom(s, 1, <<>>)

\* sep.join(seq) with the items put one after the other
RECURSIVE join_without_separator(_, _)
join_without_separator(sep, seq) ==
    IF seq = <<>> THEN <<>>
    ELSE seq[1] \o join_without_separator(sep, Tail(seq))

\* sep.join(seq)
RECURSIVE join(_, _)
join(sep, seq) ==
    IF seq = <<>> THEN <<>>
    ELSE IF Len(seq) = 1 THEN seq[1]
    ELSE seq[1] \o sep \o join(sep, Tail(seq))

\* PathStart with every path resolved from the root section
PathStart_from_root(path, resolve) == <<>>

\* the section an interpolation path starts from, and the section names it
\* descends through; resolve is the path without its last item
PathStart(path, resolve) ==
    IF Len(resolve) = 0 THEN path
    ELSE IF resolve[1] = <<>> THEN path
    ELSE <<>>

PathSections(resolve) ==
    IF Len(resolve) = 0 THEN <<>>
    ELSE IF resolve[1] = <<>> THEN Tail(resolve)
    ELSE resolve

\* "$}" inside a path: the value of the option the path names; KeyError
\* from intsection._subsections[s], TypeError from value += None
Concatenable(g) ==
    IF g.some
    THEN [v |-> g.v, exc |-> NoExc]
    ELSE [v |-> <<>>, exc |-> TypeError]

ResolveIn(rt, intsection, intoptname) ==
    IF ~HasSectionAt(rt, intsection)
    THEN [v |-> <<>>, exc |-> KeyError]
    ELSE Concatenable(get(rt, intsection, intoptname, None, "None"))

IntSection(path, rest) == PathStart(path, rest) \o PathSections(rest)

ResolveEnd(rt, path, resolve) ==
    ResolveIn(rt, IntSection(path, SubSeq(resolve, 1, Len(resolve) - 1)),
              resolve[Len(resolve)])

\* "for chunk in split" from the i-th chunk on; open is "resolve is not
\* None"
RECURSIVE ChunkLoop(_, _, _, _, _, _, _)

\* ChunkResolved with the text got interpolated in its turn
ChunkResolved_rescanning(rt, path, split, i, value, r) ==
    IF r.exc # NoExc
    THEN [value |-> value, exc |-> r.exc]
    ELSE ChunkLoop(rt, path, split, i + 1,
                   value \o ChunkLoop(rt, path, INTERPOLATION_SPLIT(r.v), 1,
                                      <<>>, FALSE, <<>>).value,
                   FALSE, <<>>)

\* "value += intsection.get(intoptname)" and "resolve = None", r being the
\* value got or the exception raised
ChunkResolved(rt, path, split, i, value, r) ==
    IF r.exc # NoExc
    THEN [value |-> value, exc |-> r.exc]
    ELSE ChunkLoop(rt, path, split, i + 1, value \o r.v, FALSE, <<>>)

ChunkLoop(rt, path, split, i, value, open, resolve) ==
    IF i > Len(split)
    THEN [value |-> IF open
                    THEN value \o INTERPOLATION_START
                               \o join(INTERPOLATION_SEP, resolve)
                    ELSE value,
          exc |-> NoExc]
    ELSE LET chunk == split[i]
             n == Len(resolve)
         IN
         IF ~open
         THEN IF chunk = INTERPOLATION_SPECIAL_ESC
              THEN ChunkLoop(rt, path, split, i + 1,
                             Append(value, INTERPOLATION_SPECIAL), FALSE,
                             <<>>)
              ELSE IF chunk = INTERPOLATION_START
              THEN ChunkLoop(rt, path, split, i + 1, value, TRUE, << <<>> >>)
              ELSE ChunkLoop(rt, path, split, i + 1, value \o chunk, FALSE,
                             <<>>)
         ELSE IF chunk = INTERPOLATION_SPECIAL_ESC
              THEN ChunkLoop(rt, path, split, i + 1, value, TRUE,
                             [resolve EXCEPT
                                 ![n] = Append(@, INTERPOLATION_SPECIAL)])
              ELSE IF chunk = INTERPOLATION_SEP
              THEN ChunkLoop(rt, path, split, i + 1, value, TRUE,
                             Append(resolve, <<>>))
              ELSE IF chunk = INTERPOLATION_END
              THEN ChunkResolved(rt, path, split, i, value,
                                 ResolveEnd(rt, path, resolve))
              ELSE ChunkLoop(rt, path, split, i + 1, value, TRUE,
                             [resolve EXCEPT ![n] = @ \o chunk])

\* the new value of one option of the section at path
InterpolateValue(rt, path, val) ==
    ChunkLoop(rt, path, INTERPOLATION_SPLIT(val), 1, <<>>, FALSE, <<>>)

\* "for optname in self._options" from the i-th option on: each value is
\* stored as soon as it is computed
RECURSIVE InterpolateOptions(_, _, _)

\* "self._options[optname] = value", r being the value computed or the
\* exception raised
StoreValue(rt, path, i, r) ==
    IF r.exc # NoExc
    THEN [root |-> rt, exc |-> r.exc]
    ELSE InterpolateOptions(
             WithSectionAt(rt, path,
                           [SectionAt(rt, path) EXCEPT !.opts[i].v = r.value]),
             path, i + 1)

InterpolateOptions(rt, path, i) ==
    IF i > Len(SectionAt(rt, path).opts)
    THEN [root |-> rt, exc |-> NoExc]
    ELSE StoreValue(rt, path, i,
             InterpolateValue(rt, path, SectionAt(rt, path).opts[i].v))

RECURSIVE _interpolate(_, _)

\* "for secname in self._subsections" from the i-th subsection on; r is how
\* the interpolation went so far: an exception ends it
RECURSIVE InterpolateSubsections(_, _, _)
InterpolateSubsections(r, path, i) ==
    IF r.exc # NoExc \/ i > Len(SectionAt(r.root, path).subs)
    THEN r
    ELSE InterpolateSubsections(
             _interpolate(r.root,
                          Append(path, SectionAt(r.root, path).subs[i].k)),
             path, i + 1)

\* Section._interpolate on the section at path of the tree rt
_interpolate(rt, path) ==
    InterpolateSubsections(InterpolateOptions(rt, path, 1), path, 1)

-----------------------------------------------------------------------------
(* The line parser: Section._parse_file                                    *)

RECURSIVE lstrip(_)
lstrip(s) ==
    IF s # <<>> /\ Head(s) \in Whitespace THEN lstrip(Tail(s)) ELSE s

RECURSIVE rstrip(_)
rstrip(s) ==
    IF s # <<>> /\ s[Len(s)] \in Whitespace
    THEN rstrip(SubSeq(s, 1, Len(s) - 1))
    ELSE s

strip(s) == lstrip(rstrip(s))

\* what ".*" can match: no newline
NoNewline(s) == \A i \in DOMAIN s : s[i] # "\n"

\* the position of the first "=" of the line, 0 if it has none
FirstEquals(line) ==
    IF \E i \in DOMAIN line : line[i] = "="
    THEN CHOOSE i \in DOMAIN line :
            line[i] = "=" /\ \A j \in 1..(i - 1) : line[j] # "="
    ELSE 0

\* _PARSE_IGNORE = r'^\s*$'
PARSE_IGNORE(line) == \A i \in DOMAIN line : line[i] \in Whitespace

\* _PARSE_COMMENT = r'^\s*[#;]{1}\s*(.*?)\s*$'
PARSE_COMMENT(line) ==
    LET w == strip(line) IN
    /\ w # <<>>
    /\ w[1] \in {"#", ";"}
    /\ NoNewline(strip(Tail(w)))

\* _PARSE_OPTION = r'^\s*([^\=]+?)\s*\=\s*(.*?)\s*$': whether it matches,
\* and its two groups
PARSE_OPTION(line) ==
    LET e == FirstEquals(line) IN
    /\ e >= 2
    /\ NoNewline(strip(SubSeq(line, e + 1, Len(line))))

OptionGroup1(line) ==
    LET before == SubSeq(line, 1, FirstEquals(line) - 1) IN
    IF strip(before) = <<>>
    THEN <<before[Len(before)]>>
    ELSE strip(before)

OptionGroup2(line) == strip(SubSeq(line, FirstEquals(line) + 1, Len(line)))

\* _PARSE_SECTION = r'^\s*\[(.+)\]\s*$': whether it matches, and its group
PARSE_SECTION(line) ==
    LET w == strip(line) IN
    /\ Len(w) >= 3
    /\ w[1] = "["
    /\ w[Len(w)] = "]"
    /\ NoNewline(w)

SectionGroup1(line) == SubSeq(strip(line), 2, Len(strip(line)) - 1)

\* _SECTION_SEP
SECTION_SEP == "."

\* str.split(sep) from position i on, cur being the current item
RECURSIVE SplitOn(_, _, _, _)
SplitOn(s, sep, i, cur) ==
    IF i > Len(s) THEN <<cur>>
    ELSE IF s[i] = sep THEN <<cur>> \o SplitOn(s, sep, i + 1, <<>>)
    ELSE SplitOn(s, sep, i + 1, Append(cur, s[i]))

\* Section._parse_subsections, of the group of a section line
_parse_subsections(group) ==
    IF ENABLE_SUBSECTIONS
    THEN SplitOn(group, SECTION_SEP, 1, <<>>)
    ELSE <<group>>

\* "for s in subs: if s not in d[1]: d[1][s] = self._EMPTY_SECTION()"
RECURSIVE EnsureSections(_, _)
EnsureSections(d, subs) ==
    IF subs = <<>>
    THEN d
    ELSE LET d1 == IF DictIndex(d.subs, Head(subs)) = 0
                   THEN [d EXCEPT !.subs = DictSet(@, Head(subs),
                                                   EMPTY_SECTION)]
                   ELSE d
             i == DictIndex(d1.subs, Head(subs))
         IN  [d1 EXCEPT !.subs[i].v = EnsureSections(@, Tail(subs))]

\* the names bound where _parse_file raises for an invalid line: its
\* parameters and local variables (the module defines no global of the
\* names the statement reads)
ParseFileNames ==
    {"self", "stream", "cdict", "lastsect", "lno", "line", "re_option",
     "re_section"}

\* raise ParsingError('Invalid line in {}: {} (line {})'.format(cfile,
\* line, lno + 1)): reading a name that is not bound raises NameError
\* before the ParsingError is built
RaiseInvalidLine(line, lno) ==
    IF {"cfile", "line", "lno"} \subseteq ParseFileNames
    THEN [exc |-> ParsingError, line |-> line, lineno |-> lno + 1]
    ELSE [exc |-> NameError, line |-> <<>>, lineno |-> 0]

\* "for lno, line in enumerate(stream)" from line number lno (from 0) on;
\* lastsect is the path in cdict of the section the options go to
RECURSIVE ParseLoop(_, _, _, _)
ParseLoop(stream, lno, cdict, lastsect) ==
    IF lno >= Len(stream)
    THEN [obj |-> cdict, exc |-> NoExc, line |-> <<>>, lineno |-> 0]
    ELSE LET line == stream[lno + 1] IN
         IF PARSE_IGNORE(line) \/ PARSE_COMMENT(line)
         THEN ParseLoop(stream, lno + 1, cdict, lastsect)
         ELSE IF PARSE_OPTION(line)
         THEN LET sect == SectionAt(cdict, lastsect) IN
              ParseLoop(stream, lno + 1,
                        WithSectionAt(cdict, lastsect,
                            [sect EXCEPT !.opts =
                                DictSet(@, OptionGroup1(line),
                                        OptionGroup2(line))]),
                        lastsect)
         ELSE IF PARSE_SECTION(line)
         THEN LET subs == _parse_subsections(SectionGroup1(line)) IN
              ParseLoop(stream, lno + 1, EnsureSections(cdict, subs), subs)
         ELSE [obj |-> cdict] @@ RaiseInvalidLine(line, lno)

\* Section._parse_file of a stream, a sequence of lines
_parse_file(stream) == ParseLoop(stream, 0, EMPTY_SECTION, <<>>)

-----------------------------------------------------------------------------
(* Section._import and the other methods that change a section.  A source  *)
(* is a record: [type |-> "None"], [type |-> "dict", d |-> options],        *)
(* [type |-> "stream", lines |-> lines] (an io.IOBase object) or            *)
(* [type |-> "object", obj |-> compatible object].                          *)

NoneSource == [type |-> "None"]
DictSource(d) == [type |-> "dict", d |-> d]
StreamSource(lines) == [type |-> "stream", lines |-> lines]
ObjectSource(obj) == [type |-> "object", obj |-> obj]

\* the isinstance tests of Section._import: the object to import
SourceObject(source) ==
    IF source.type = "stream"
    THEN _parse_file(source.lines)
    ELSE [obj |-> IF source.type = "dict"
                  THEN [opts |-> source.d, subs |-> <<>>]
                  ELSE source.obj,
          exc |-> NoExc, line |-> <<>>, lineno |-> 0]

\* Section._import on the section at path of the tree rt, from the i-th
\* source on
RECURSIVE ImportLoop(_, _, _, _, _, _, _, _)

\* "if interpolation: self._interpolate()", n being how that ended, and
\* the next source
ImportInterpolated(path, sources, i, overwrite, add, reset, interpolation, n) ==
    IF n.exc # NoExc
    THEN [root |-> n.root, exc |-> n.exc, line |-> <<>>, lineno |-> 0]
    ELSE ImportLoop(n.root, path, sources, i + 1, overwrite, add, reset,
                    interpolation)

\* ImportMerged with the interpolation run on the root section
ImportMerged_interpolating_root(rt, path, sources, i, overwrite, add, reset, interpolation, m) ==
    ImportInterpolated(path, sources, i, overwrite, add, reset,
        interpolation,
        IF m.exc = NoExc /\ interpolation
        THEN _interpolate(WithSectionAt(rt, path, m.sec), <<>>)
        ELSE [root |-> WithSectionAt(rt, path, m.sec), exc |-> m.exc])

\* self._import_object(obj, ...) ended as m on the section at path
ImportMerged(rt, path, sources, i, overwrite, add, reset, interpolation, m) ==
    ImportInterpolated(path, sources, i, overwrite, add, reset,
        interpolation,
        IF m.exc = NoExc /\ interpolation
        THEN _interpolate(WithSectionAt(rt, path, m.sec), path)
        ELSE [root |-> WithSectionAt(rt, path, m.sec), exc |-> m.exc])

\* the source was turned into the object p.obj, or parsing it raised
ImportParsed(rt, path, sources, i, overwrite, add, reset, interpolation, p) ==
    IF p.exc # NoExc
    THEN [root |-> rt, exc |-> p.exc, line |-> p.line, lineno |-> p.lineno]
    ELSE ImportMerged(rt, path, sources, i, overwrite, add, reset,
             interpolation,
             _import_object(SectionAt(rt, path), p.obj, overwrite, add,
                            reset))

ImportLoop(rt, path, sources, i, overwrite, add, reset, interpolation) ==
    IF i > Len(sources)
    THEN [root |-> rt, exc |-> NoExc, line |-> <<>>, lineno |-> 0]
    ELSE IF sources[i].type = "None"
    THEN ImportLoop(rt, path, sources, i + 1, overwrite, add, reset,
                    interpolation)
    ELSE ImportParsed(rt, path, sources, i, overwrite, add, reset,
                      interpolation, SourceObject(sources[i]))

_import(rt, path, sources, overwrite, add, reset, interpolation) ==
    ImportLoop(rt, path, sources, 1, overwrite, add, reset, interpolation)

\* Section.__setitem__ (opt and val are strings)
__setitem__(self, opt, val) ==
    LET i == FirstLowerMatch(self.opts, opt) IN
    IF IGNORE_CASE /\ i # 0
    THEN [self EXCEPT !.opts[i].v = val]
    ELSE [self EXCEPT !.opts = DictSet(@, opt, val)]

\* Section.__delitem__ (opt is a string)
__delitem__(self, opt) ==
    IF IGNORE_CASE
    THEN LET i == FirstLowerMatch(self.opts, opt) IN
         IF i # 0
         THEN [sec |-> [self EXCEPT !.opts = DictDel(@, self.opts[i].k)],
               exc |-> NoExc]
         ELSE [sec |-> self, exc |-> KeyError]
    ELSE IF DictIndex(self.opts, opt) # 0
    THEN [sec |-> [self EXCEPT !.opts = DictDel(@, opt)], exc |-> NoExc]
    ELSE [sec |-> self, exc |-> KeyError]

\* Section.make_subsection
make_subsection(self, name) ==
    _import_object(self,
                   [opts |-> <<>>,
                    subs |-> <<[k |-> name, v |-> EMPTY_SECTION]>>],
                   FALSE, TRUE, FALSE)

-----------------------------------------------------------------------------
(* Calling a section: Section.__call__                                     *)

\* Section._finalize_call: how the call ends on a name that is not found;
\* safe is "True", "False" or "None" (not given)
_finalize_call(safe) ==
    IF safe \notin {"True", "False"}
    THEN IF SAFE_CALLS THEN NoExc ELSE KeyError
    ELSE IF safe = "True" THEN NoExc ELSE KeyError

\* the position in subs of the subsection that sname names, 0 if none
CallMatch(subs, sname) ==
    IF IGNORE_CASE THEN FirstLowerMatch(subs, sname)
    ELSE DictIndex(subs, sname)

\* "for sname in path" from the i-th name on, section being the path of
\* the section reached so far; m is the position of the name in it
RECURSIVE CallLoop(_, _, _, _, _)
CallFound(rt, section, path, i, safe, subs, m) ==
    IF m # 0
    THEN CallLoop(rt, Append(section, subs[m].k), path, i + 1, safe)
    ELSE [section |-> section, exc |-> _finalize_call(safe)]

CallLoop(rt, section, path, i, safe) ==
    IF i > Len(path)
    THEN [section |-> section, exc |-> NoExc]
    ELSE CallFound(rt, section, path, i, safe, SectionAt(rt, section).subs,
                   CallMatch(SectionAt(rt, section).subs, path[i]))

\* Section.__call__(*path, safe=...) on the section at self of the tree rt:
\* the path of the section returned, or the exception raised
__call__(rt, self, path, safe) == CallLoop(rt, self, path, 1, safe)

-----------------------------------------------------------------------------
(* The export engine: Section._export_file.  The file is a text; what is   *)
(* written to it is kept as the sequence of the strings written, one per    *)
(* stream.write (stream.writelines writes each line by itself).             *)

\* stream.readlines() from position i on, cur being the line read so far
RECURSIVE ReadLinesFrom(_, _, _)
ReadLinesFrom(text, i, cur) ==
    IF i > Len(text)
    THEN IF cur = <<>> THEN <<>> ELSE <<cur>>
    ELSE IF text[i] = "\n"
    THEN <<Append(cur, "\n")>> \o ReadLinesFrom(text, i + 1, <<>>)
    ELSE ReadLinesFrom(text, i + 1, Append(cur, text[i]))

readlines(text) == ReadLinesFrom(text, 1, <<>>)

\* the text of the file after the strings written
RECURSIVE Flatten(_)
Flatten(written) ==
    IF written = <<>> THEN <<>> ELSE Head(written) \o Flatten(Tail(written))

\* stream.tell()
tell(written) == Len(Flatten(written))

\* _OPTION_SEP, and "".join((option, self._OPTION_SEP, value, '\n'))
OPTION_SEP == <<" ", "=", " ">>
OptionLine(option, value) == option \o OPTION_SEP \o value \o <<"\n">>

\* _SECTION_MARKERS formatted with the joined names, and the line break
SectionLine(BR, names) ==
    BR \o <<"[">> \o join(<<SECTION_SEP>>, names) \o <<"]", "\n">>

\* "Exclude leading blank lines"
RECURSIVE ExcludeLeadingBlankLines(_)
ExcludeLeadingBlankLines(lines) ==
    IF lines = <<>> THEN <<>>
    ELSE IF PARSE_IGNORE(Head(lines))
    THEN ExcludeLeadingBlankLines(Tail(lines))
    ELSE lines

\* the lines _export_file reads: none when the file cannot be opened
FileLines(file) ==
    IF file.exists THEN ExcludeLeadingBlankLines(readlines(file.text))
    ELSE <<>>

\* Section._get_descendants of the section at path: the paths of its
\* descendants, each subsection followed by its own descendants
RECURSIVE _get_descendants(_, _)
RECURSIVE DescendantsFrom(_, _, _)
DescendantsFrom(rt, path, i) ==
    IF i > Len(SectionAt(rt, path).subs)
    THEN <<>>
    ELSE <<Append(path, SectionAt(rt, path).subs[i].k)>>
         \o _get_descendants(rt, Append(path, SectionAt(rt, path).subs[i].k))
         \o DescendantsFrom(rt, path, i + 1)

_get_descendants(rt, path) == DescendantsFrom(rt, path, 1)

\* "d.setdefault(o, s._options[o][:])" for the options opts from the i-th on
RECURSIVE SetDefaults(_, _, _)
SetDefaults(d, opts, i) ==
    IF i > Len(opts) THEN d
    ELSE SetDefaults(IF DictIndex(d, opts[i].k) # 0 THEN d
                     ELSE Append(d, opts[i]),
                     opts, i + 1)

\* "for s in slist" of get_options from the i-th section on
RECURSIVE OptionsOf(_, _, _, _)
OptionsOf(rt, slist, i, d) ==
    IF i > Len(slist) THEN d
    ELSE OptionsOf(rt, slist, i + 1,
                   SetDefaults(d, SectionAt(rt, slist[i]).opts, 1))

\* Section.get_options(inherit_options=...) of the section at path;
\* inherit_options is "True", "False" or "None"
get_options(rt, path, inherit_options) ==
    OptionsOf(rt,
              IF (inherit_options = "None" /\ INHERIT_OPTIONS)
                 \/ inherit_options = "True"
              THEN <<path>> \o _get_ancestors(path)
              ELSE <<path>>,
              1, <<>>)

\* "BASE_SECTION in alist": BASE is the section or one of its ancestors
InAncestry(BASE, section) ==
    /\ Len(BASE) <= Len(section)
    /\ SubSeq(section, 1, Len(BASE)) = BASE

\* list.remove(x): x is in the list
RemoveFirst(list, x) ==
    LET i == CHOOSE i \in DOMAIN list :
                 list[i] = x /\ \A j \in 1..(i - 1) : list[j] # x
    IN  SubSeq(list, 1, i - 1) \o SubSeq(list, i + 1, Len(list))

\* The local state of _export_file is the record st:
\*   written            what was written to the stream so far
\*   readonly_section, remaining_options, remaining_descendants, other_lines
\*   exc                the exception that ended the export

\* Section._export_other_lines
_export_other_lines(st, reset) ==
    [st EXCEPT !.written = IF st.readonly_section \/ ~reset
                           THEN @ \o st.other_lines
                           ELSE @,
               !.other_lines = <<>>]

\* Section._export_other_lines_before_existing_section
_export_other_lines_before_existing_section(st, reset) ==
    [st EXCEPT !.written = IF st.readonly_section \/ ~reset
                           THEN @ \o st.other_lines
                           ELSE IF tell(@) > 0
                           THEN Append(@, <<"\n">>)
                           ELSE @,
               !.other_lines = <<>>]

\* the position in remaining_options of the option of the line, 0 if none
ExistingOptionMatch(remaining_options, fkey) ==
    IF IGNORE_CASE THEN FirstLowerMatch(remaining_options, fkey)
    ELSE DictIndex(remaining_options, fkey)

\* Section._export_file_existing_option, option being the position found
ExistingOption(st, line, overwrite, reset, option) ==
    IF option # 0
    THEN [st EXCEPT
             !.written =
                 Append(@, IF overwrite /\ OptionGroup2(line)
                                 # st.remaining_options[option].v
                           THEN OptionLine(OptionGroup1(line),
                                           st.remaining_options[option].v)
                           ELSE line),
             !.remaining_options =
                 DictDel(@, st.remaining_options[option].k)]
    ELSE IF ~reset
    THEN [st EXCEPT !.written = Append(@, line)]
    ELSE st

_export_file_existing_option(st, line, overwrite, reset) ==
    IF st.readonly_section
    THEN [st EXCEPT !.written = Append(@, line)]
    ELSE ExistingOption(st, line, overwrite, reset,
             ExistingOptionMatch(st.remaining_options, OptionGroup1(line)))

\* Section._export_file_remaining_options
_export_file_remaining_options(st) ==
    IF st.readonly_section
    THEN st
    ELSE [st EXCEPT !.written =
              @ \o [i \in DOMAIN st.remaining_options |->
                       OptionLine(st.remaining_options[i].k,
                                  st.remaining_options[i].v)]]

\* "for name in names: current_section = current_section(name)" from the
\* i-th name on; c is the section reached or the KeyError raised
RECURSIVE CurrentSection(_, _, _, _)
CurrentSection(rt, c, names, i) ==
    IF c.exc # NoExc \/ i > Len(names)
    THEN c
    ELSE CurrentSection(rt, __call__(rt, c.section, <<names[i]>>, "None"),
                        names, i + 1)

\* Section._export_file_existing_section, c being what the names of the
\* line lead to
ExistingSection(rt, BASE, st, line, c) ==
    IF c.exc # NoExc
    THEN [st EXCEPT !.readonly_section = TRUE,
                    !.remaining_options = <<>>,
                    !.written = Append(@, line)]
    ELSE IF InAncestry(BASE, c.section)
    THEN IF \E i \in DOMAIN st.remaining_descendants :
                st.remaining_descendants[i] = c.section
         THEN [st EXCEPT
                  !.readonly_section = FALSE,
                  !.remaining_options = get_options(rt, c.section, "False"),
                  !.remaining_descendants = RemoveFirst(@, c.section),
                  !.written = Append(@, line)]
         ELSE [st EXCEPT !.exc = ValueError]
    ELSE [st EXCEPT !.readonly_section = TRUE,
                    !.remaining_options = <<>>,
                    !.written = Append(@, line)]

_export_file_existing_section(rt, BASE, st, line, path) ==
    ExistingSection(rt, BASE, st, line,
        CurrentSection(rt,
                       [section |-> IF path THEN <<>> ELSE BASE,
                        exc |-> NoExc],
                       _parse_subsections(SectionGroup1(line)), 1))

\* HeaderNames with every header counted from the root section
HeaderNames_from_root(BASE, section, path) == section

\* the names of the header of the section at path section
HeaderNames(BASE, section, path) ==
    IF path THEN section
    ELSE SubSeq(section, Len(BASE) + 1, Len(section))

\* "for option in section._options: stream.write(...)": the value is read
\* with section[option]
SectionOptionLines(rt, section) ==
    [i \in DOMAIN SectionAt(rt, section).opts |->
        OptionLine(SectionAt(rt, section).opts[i].k,
                   __getitem__(rt, section,
                               SectionAt(rt, section).opts[i].k).value.v)]

\* Section._export_file_remaining_sections: "for section in
\* remaining_descendants" from the i-th on
RECURSIVE RemainingSections(_, _, _, _, _, _)
RemainingSections(rt, BASE, st, i, BR, path) ==
    IF i > Len(st.remaining_descendants)
    THEN st
    ELSE IF Len(SectionAt(rt, st.remaining_descendants[i]).opts) > 0
    THEN RemainingSections(rt, BASE,
             [st EXCEPT !.written =
                  Append(@, SectionLine(BR,
                                HeaderNames(BASE,
                                            st.remaining_descendants[i],
                                            path)))
                  \o SectionOptionLines(rt, st.remaining_descendants[i])],
             i + 1, <<"\n">>, path)
    ELSE RemainingSections(rt, BASE, st, i + 1, BR, path)

_export_file_remaining_sections(rt, BASE, st, path) ==
    RemainingSections(rt, BASE, st, 1,
                      IF tell(st.written) > 0 THEN <<"\n">> ELSE <<>>, path)

\* ExportLine writing the line of an option ahead of the other lines that
\* precede it in the file
ExportLine_option_first(rt, BASE, st, line, overwrite, add, reset, path) ==
    IF PARSE_OPTION(line)
    THEN _export_other_lines(
             _export_file_existing_option(st, line, overwrite, reset), reset)
    ELSE IF PARSE_SECTION(line)
    THEN _export_file_existing_section(rt, BASE,
             _export_other_lines_before_existing_section(
                 IF add THEN _export_file_remaining_options(st) ELSE st,
                 reset),
             line, path)
    ELSE [st EXCEPT !.other_lines = Append(@, line)]

\* one turn of "for line in lines"
ExportLine(rt, BASE, st, line, overwrite, add, reset, path) ==
    IF PARSE_OPTION(line)
    THEN _export_file_existing_option(_export_other_lines(st, reset), line,
                                      overwrite, reset)
    ELSE IF PARSE_SECTION(line)
    THEN _export_file_existing_section(rt, BASE,
             _export_other_lines_before_existing_section(
                 IF add THEN _export_file_remaining_options(st) ELSE st,
                 reset),
             line, path)
    ELSE [st EXCEPT !.other_lines = Append(@, line)]

\* "for line in lines" from the i-th line on; an exception ends it
RECURSIVE ExportLines(_, _, _, _, _, _, _, _, _)
ExportLines(rt, BASE, st, lines, i, overwrite, add, reset, path) ==
    IF st.exc # NoExc \/ i > Len(lines)
    THEN st
    ELSE ExportLines(rt, BASE,
             ExportLine(rt, BASE, st, lines[i], overwrite, add, reset, path),
             lines, i + 1, overwrite, add, reset, path)

\* what follows the loop
ExportEnd(rt, BASE, st, add, reset, path) ==
    IF st.exc # NoExc
    THEN st
    ELSE IF add
    THEN _export_file_remaining_sections(rt, BASE,
             _export_other_lines(_export_file_remaining_options(st), reset),
             path)
    ELSE _export_other_lines(st, reset)

\* the local variables of _export_file before its loop
ExportStart(rt, BASE, path) ==
    [written |-> <<>>,
     readonly_section |-> BASE # <<>> /\ path,
     remaining_options |-> get_options(rt, BASE, "False"),
     remaining_descendants |->
         (IF BASE # <<>> /\ path THEN <<BASE>> ELSE <<>>)
             \o _get_descendants(rt, BASE),
     other_lines |-> <<>>,
     exc |-> NoExc]

\* the file as the with statement leaves it, also when an exception ends it
Exported(st) ==
    [file |-> [exists |-> TRUE, text |-> Flatten(st.written)],
     written |-> st.written, exc |-> st.exc]

\* Section._export_file(cfile, ...) on the section at BASE of the tree rt
_export_file(rt, BASE, file, overwrite, add, reset, path) ==
    Exported(ExportEnd(rt, BASE,
                 ExportLines(rt, BASE, ExportStart(rt, BASE, path),
                             FileLines(file), 1, overwrite, add, reset,
                             path),
                 add, reset, path))

-----------------------------------------------------------------------------
(* The inputs of the model                                                 *)

MaxCalls == 2

Opt(k, v) == [k |-> <<k>>, v |-> <<v>>]
Sub(k, sec) == [k |-> <<k>>, v |-> sec]
Sec(opts, subs) == [opts |-> opts, subs |-> subs]

\* the tree the store is constructed from: {A: 1, B: {C: 2}}
InitObject ==
    Sec(<<Opt("A", "1")>>, <<Sub("B", Sec(<<Opt("C", "2")>>, <<>>))>>)

\* the compatible objects that are merged
\* {A: 9, D: 3}
ObjectPlain == Sec(<<Opt("A", "9"), Opt("D", "3")>>, <<>>)
\* names in the other letter case, a new option before an existing one, a
\* subsection that exists (as B) and, inside it, one that does not
ObjectCase ==
    Sec(<<Opt("D", "3"), Opt("a", "5")>>,
        <<Sub("b", Sec(<<Opt("c", "7"), Opt("D", "3")>>,
                       <<Sub("E", Sec(<<Opt("A", "1")>>, <<>>))>>))>>)
\* two spellings of one option name
ObjectTwice == Sec(<<Opt("A", "1"), Opt("a", "2")>>, <<>>)
\* an invalid option name between two valid ones
ObjectBadOption ==
    Sec(<<Opt("D", "3"), Opt("9", "1"), Opt("A", "9")>>, <<>>)
\* an invalid section name below a subsection the initial tree lacks
ObjectBadDeep ==
    Sec(<<Opt("A", "7")>>,
        <<Sub("E", Sec(<<Opt("A", "1")>>, <<Sub("9", EMPTY_SECTION)>>))>>)

\* a subsection the initial tree lacks, with two spellings of one option
\* name and a subsection of its own
ObjectNewChild ==
    Sec(<<>>,
        <<Sub("N", Sec(<<Opt("k", "1"), Opt("K", "2")>>,
                       <<Sub("m", Sec(<<Opt("q", "4")>>, <<>>))>>))>>)

Objects ==
    {ObjectPlain, ObjectCase, ObjectTwice, ObjectBadOption, ObjectBadDeep,
     ObjectNewChild}

OptionNames == {<<"A">>, <<"a">>, <<"D">>}
SectionNames == {<<"b">>, <<"E">>, <<"9">>}
NewValue == <<"8">>

\* the sections a call is made on: the root and its subsections
Targets(rt) == {<<>>} \cup {<<rt.subs[i].k>> : i \in DOMAIN rt.subs}

\* the record of a call
Call(op, path, args, pre, exc) ==
    [op |-> op, path |-> path, args |-> args, pre |-> pre, exc |-> exc]

NoArgs ==
    [cobj |-> EMPTY_SECTION, opt |-> <<>>, val |-> <<>>,
     interpolation |-> FALSE, items |-> <<>>]

-----------------------------------------------------------------------------
(* The store after ConfigFile(InitObject, ignore_case=...) and the calls   *)

Init ==
    /\ IGNORE_CASE \in BOOLEAN
    /\ INHERIT_OPTIONS = FALSE
    /\ ENABLE_SUBSECTIONS = TRUE
    /\ root = _import(EMPTY_SECTION, <<>>, <<ObjectSource(InitObject)>>,
                      TRUE, TRUE, FALSE, FALSE).root
    /\ last = Call("ConfigFile", <<>>, NoArgs, EMPTY_SECTION, NoExc)
    /\ SAFE_CALLS = FALSE
    /\ cfile = NoFile
    /\ ncalls = 0

Flags == <<IGNORE_CASE, INHERIT_OPTIONS, ENABLE_SUBSECTIONS, SAFE_CALLS>>

\* the call op(args) on the section at path ends as r: the tree it leaves
\* and the exception it raised
Returned(op, path, args, r) ==
    /\ ncalls < MaxCalls
    /\ root' = r.root
    /\ last' = Call(op, path, args, root, r.exc)
    /\ ncalls' = ncalls + 1
    /\ UNCHANGED <<Flags, cfile>>

\* the tree with the section at path as a method of it, which ended as r,
\* leaves it
InTree(path, r) == [root |-> WithSectionAt(root, path, r.sec), exc |-> r.exc]

\* a call of one of the four import methods with one compatible object
Import(op, path, cobj, overwrite, add, reset) ==
    Returned(op, path, [NoArgs EXCEPT !.cobj = cobj],
                _import(root, path, <<ObjectSource(cobj)>>, overwrite, add,
                        reset, FALSE))

\* Section.upgrade
upgrade(path, cobj) == Import("upgrade", path, cobj, TRUE, TRUE, FALSE)

\* Section.update
update(path, cobj) == Import("update", path, cobj, TRUE, FALSE, FALSE)

\* Section.reset
reset(path, cobj) == Import("reset", path, cobj, TRUE, TRUE, TRUE)

\* Section.add
add(path, cobj) == Import("add", path, cobj, FALSE, TRUE, FALSE)

\* Section.set / section[opt] = val
set(path, opt, val) ==
    Returned("set", path, [NoArgs EXCEPT !.opt = opt, !.val = val],
                InTree(path,
                       [sec |-> __setitem__(SectionAt(root, path), opt, val),
                        exc |-> NoExc]))

\* del section[opt]
delitem(path, opt) ==
    Returned("del", path, [NoArgs EXCEPT !.opt = opt],
                InTree(path, __delitem__(SectionAt(root, path), opt)))

Upgrade == \E path \in Targets(root), cobj \in Objects : upgrade(path, cobj)

Update == \E path \in Targets(root), cobj \in Objects : update(path, cobj)

Reset == \E path \in Targets(root), cobj \in Objects : reset(path, cobj)

Add == \E path \in Targets(root), cobj \in Objects : add(path, cobj)

SetOption ==
    \E path \in Targets(root), opt \in OptionNames :
        set(path, opt, NewValue)

DeleteOption ==
    \E path \in Targets(root), opt \in OptionNames : delitem(path, opt)

MakeSubsection ==
    \E path \in Targets(root), name \in SectionNames :
        Returned("make_subsection", path, [NoArgs EXCEPT !.opt = name],
                 InTree(path, make_subsection(SectionAt(root, path), name)))

Next ==
    \/ Upgrade
    \/ Update
    \/ Reset
    \/ Add
    \/ SetOption
    \/ DeleteOption
    \/ MakeSubsection

Spec == Init /\ [][Next]_vars

-----------------------------------------------------------------------------
(* Importing files: ConfigFile(subsections=..., ignore_case=...) and then  *)
(* upgrade(stream) calls, each on a file of up to MaxLines lines            *)

MaxImports == 1
MaxLines == 2

LineOption == <<"x", " ", "=", " ", "1", "\n">>
LineSection == <<"[", "A", ".", "b", "]", "\n">>
LineComment == <<"#", " ", "c", "\n">>
LineBlank == <<" ", "\n">>
LineInvalid == <<"f", "o", "o", "\n">>

Lines == {LineOption, LineSection, LineComment, LineBlank, LineInvalid}

Streams == UNION {[1..n -> Lines] : n \in 1..MaxLines}

ParseInit ==
    /\ IGNORE_CASE \in BOOLEAN
    /\ INHERIT_OPTIONS = FALSE
    /\ ENABLE_SUBSECTIONS \in BOOLEAN
    /\ root = EMPTY_SECTION
    /\ last = Call("ConfigFile", <<>>, NoArgs, EMPTY_SECTION, NoExc)
           @@ [line |-> <<>>, lineno |-> 0]
    /\ SAFE_CALLS = FALSE
    /\ cfile = NoFile
    /\ ncalls = 0

\* upgrade(stream) on the root ended as r; line and lineno are what the
\* message of a ParsingError is formatted from
ImportedFile(stream, r) ==
    /\ ncalls < MaxImports
    /\ root' = r.root
    /\ last' = [op |-> "upgrade", path |-> <<>>,
                args |-> [stream |-> stream], pre |-> root, exc |-> r.exc,
                line |-> r.line, lineno |-> r.lineno]
    /\ ncalls' = ncalls + 1
    /\ UNCHANGED <<Flags, cfile>>

UpgradeFromFile ==
    \E stream \in Streams :
        ImportedFile(stream,
                     _import(root, <<>>, <<StreamSource(stream)>>, TRUE,
                             TRUE, FALSE, FALSE))

ParseNext == UpgradeFromFile

SpecParse == ParseInit /\ [][ParseNext]_vars

-----------------------------------------------------------------------------
(* Interpolating: a tree of four sections, and upgrade({y: value},         *)
(* interpolation=True) calls on any of its sections, the value being one    *)
(* interpolation path followed by some text                                 *)

\* x = 0, [A] x = 1, [A.c] z = 2, [B] x = 3
InterpObject ==
    Sec(<<Opt("x", "0")>>,
        <<Sub("A", Sec(<<Opt("x", "1")>>,
                       <<Sub("c", Sec(<<Opt("z", "2")>>, <<>>))>>)),
          Sub("B", Sec(<<Opt("x", "3")>>, <<>>))>>)

\* the same with an escaped special character in a value of the root and
\* in one of B: e = $$
InterpObjectEscaped ==
    Sec(<<Opt("x", "0"), [k |-> <<"e">>, v |-> <<"$", "$">>]>>,
        <<Sub("A", Sec(<<Opt("x", "1")>>,
                       <<Sub("c", Sec(<<Opt("z", "2")>>, <<>>))>>)),
          Sub("B", Sec(<<Opt("x", "3"), [k |-> <<"e">>, v |-> <<"$", "$">>]>>,
                       <<>>))>>)

InterpObjects == {InterpObject, InterpObjectEscaped}

\* the items of an interpolation path: sections and, last, the option
InterpPaths ==
    {<< <<"x">> >>, << <<>>, <<"x">> >>, << <<"A">>, <<"x">> >>,
     << <<"a">>, <<"x">> >>, << <<>>, <<"c">>, <<"z">> >>,
     << <<"A">>, <<"c">>, <<"z">> >>, << <<"c">>, <<"z">> >>,
     << <<"B">>, <<"X">> >>}

Tails == {<<>>, <<" ", "t", "a", "i", "l">>}

InterpOption == <<"y">>

\* ${item$:item$:option$}tail
InterpValue(items, tail) ==
    INTERPOLATION_START \o join(INTERPOLATION_SEP, items)
        \o INTERPOLATION_END \o tail

\* the paths of all the sections of the tree below the section at path
RECURSIVE SectionPaths(_, _)
SectionPaths(sec, path) ==
    {path} \cup UNION {SectionPaths(sec.subs[i].v, Append(path, sec.subs[i].k))
                          : i \in DOMAIN sec.subs}

InterpInit ==
    /\ IGNORE_CASE \in BOOLEAN
    /\ INHERIT_OPTIONS \in BOOLEAN
    /\ ENABLE_SUBSECTIONS = TRUE
    /\ \E cobj \in InterpObjects :
           root = _import(EMPTY_SECTION, <<>>, <<ObjectSource(cobj)>>, TRUE,
                          TRUE, FALSE, FALSE).root
    /\ last = Call("ConfigFile", <<>>, NoArgs, EMPTY_SECTION, NoExc)
    /\ SAFE_CALLS = FALSE
    /\ cfile = NoFile
    /\ ncalls = 0

\* upgrade({y: value}, interpolation=True) on the section at path ended as r
Interpolated(path, items, tail, r) ==
    /\ ncalls < MaxImports
    /\ root' = r.root
    /\ last' = Call("upgrade", path,
                    [items |-> items, tail |-> tail, interpolation |-> TRUE,
                     val |-> InterpValue(items, tail), sources |-> 1],
                    root, r.exc)
    /\ ncalls' = ncalls + 1
    /\ UNCHANGED <<Flags, cfile>>

UpgradeInterpolating ==
    \E path \in SectionPaths(root, <<>>), items \in InterpPaths,
       tail \in Tails :
        Interpolated(path, items, tail,
            _import(root, path,
                    <<DictSource(<<[k |-> InterpOption,
                                    v |-> InterpValue(items, tail)]>>)>>,
                    TRUE, TRUE, FALSE, TRUE))

\* values without a closed interpolation path: paths left open at the end
\* of the value, and escaped markers
ValueOpen == <<"$", "{", "x">>
ValueOpenSep == <<"a", " ", "$", "{", "s", "$", ":", "x">>
ValueOpenEmpty == <<"$", "{", "x", "$", ":">>
ValueEscapes == <<"$", "$", "$", "$">>
ValueEscapedStart == <<"$", "$", "{", "x", "$", "}">>

UnclosedValues == {ValueOpen, ValueOpenSep, ValueOpenEmpty}
LiteralValues == UnclosedValues \cup {ValueEscapes, ValueEscapedStart}

OtherOption == <<"w">>
OtherValue == <<"1">>

\* upgrade(source, ..., interpolation=True) on the section at path, the
\* first source being {y: val}, ended as r
InterpolatedLiteral(path, val, sources, r) ==
    /\ ncalls < MaxImports
    /\ root' = r.root
    /\ last' = Call("upgrade", path,
                    [items |-> <<>>, tail |-> <<>>, interpolation |-> TRUE,
                     val |-> val, sources |-> sources],
                    root, r.exc)
    /\ ncalls' = ncalls + 1
    /\ UNCHANGED <<Flags, cfile>>

\* upgrade({y: val}, interpolation=True)
UpgradeLiteral ==
    \E path \in SectionPaths(root, <<>>), val \in LiteralValues :
        InterpolatedLiteral(path, val, 1,
            _import(root, path,
                    <<DictSource(<<[k |-> InterpOption, v |-> val]>>)>>,
                    TRUE, TRUE, FALSE, TRUE))

\* upgrade({y: val}, {w: '1'}, interpolation=True)
UpgradeTwoSources ==
    \E path \in SectionPaths(root, <<>>), val \in LiteralValues :
        InterpolatedLiteral(path, val, 2,
            _import(root, path,
                    <<DictSource(<<[k |-> InterpOption, v |-> val]>>),
                      DictSource(<<[k |-> OtherOption, v |-> OtherValue]>>)>>,
                    TRUE, TRUE, FALSE, TRUE))

\* an object whose values refer to one another: a to b, which comes after
\* it; b to x, an option of the tree; c to b, which comes before it; d to e
\* of the subsection n, which comes after all the options; f to e, which
\* comes before it in n
RefLater == <<"$", "{", "b", "$", "}">>
RefTree == <<"$", "{", "x", "$", "}">>
RefBelow == <<"$", "{", "$", ":", "n", "$", ":", "e", "$", "}">>
RefInner == <<"$", "{", "e", "$", "}">>

ChainObject ==
    Sec(<<[k |-> <<"a">>, v |-> RefLater], [k |-> <<"b">>, v |-> RefTree],
          [k |-> <<"c">>, v |-> RefLater], [k |-> <<"d">>, v |-> RefBelow]>>,
        <<Sub("n", Sec(<<[k |-> <<"e">>, v |-> ValueEscapes],
                         [k |-> <<"f">>, v |-> RefInner]>>, <<>>))>>)

\* the arguments of one of the four import methods called with ChainObject
\* and interpolation=True
ChainArgs ==
    [items |-> <<>>, tail |-> <<>>, interpolation |-> TRUE, val |-> <<>>,
     sources |-> 1, cobj |-> ChainObject]

\* such a call on the section at path ended as r
ImportedChain(op, path, r) ==
    /\ ncalls < MaxImports
    /\ root' = r.root
    /\ last' = Call(op, path, ChainArgs, root, r.exc)
    /\ ncalls' = ncalls + 1
    /\ UNCHANGED <<Flags, cfile>>

\* section.upgrade(ChainObject, interpolation=True), and likewise update,
\* reset and add
ImportChain ==
    \E path \in SectionPaths(root, <<>>),
       mode \in {<<"upgrade", TRUE, TRUE, FALSE>>,
                 <<"update", TRUE, FALSE, FALSE>>,
                 <<"reset", TRUE, TRUE, TRUE>>,
                 <<"add", FALSE, TRUE, FALSE>>} :
        ImportedChain(mode[1], path,
            _import(root, path, <<ObjectSource(ChainObject)>>, mode[2],
                    mode[3], mode[4], TRUE))

InterpNext ==
    \/ UpgradeInterpolating
    \/ UpgradeLiteral
    \/ UpgradeTwoSources
    \/ ImportChain

SpecInterp == InterpInit /\ [][InterpNext]_vars

-----------------------------------------------------------------------------
(* Reading options: get and section[opt] calls on the sections of a tree   *)
(* whose options are defined at several depths                              *)

\* x = 0, k = 9, [A] x = 1, [A.c] z = 2, [B] x = 3
GetObject ==
    Sec(<<Opt("x", "0"), Opt("k", "9")>>,
        <<Sub("A", Sec(<<Opt("x", "1")>>,
                       <<Sub("c", Sec(<<Opt("z", "2")>>, <<>>))>>)),
          Sub("B", Sec(<<Opt("x", "3")>>, <<>>))>>)

GetNames == {<<"x">>, <<"X">>, <<"k">>, <<"z">>, <<"q">>}
Fallbacks == {None, Some(<<"f">>)}
InheritArguments == {"None", "True", "False"}

GetInit ==
    /\ IGNORE_CASE \in BOOLEAN
    /\ INHERIT_OPTIONS \in BOOLEAN
    /\ ENABLE_SUBSECTIONS = TRUE
    /\ SAFE_CALLS = FALSE
    /\ cfile = NoFile
    /\ root = _import(EMPTY_SECTION, <<>>, <<ObjectSource(GetObject)>>,
                      TRUE, TRUE, FALSE, FALSE).root
    /\ last = Call("ConfigFile", <<>>, NoArgs, EMPTY_SECTION, NoExc)
    /\ ncalls = 0

\* a call that reads the section at path returned value or raised exc
Read(op, path, args, value, exc) ==
    /\ ncalls < MaxCalls
    /\ last' = Call(op, path, args, root, exc) @@ [result |-> value]
    /\ ncalls' = ncalls + 1
    /\ UNCHANGED <<root, Flags, cfile>>

\* section.get(opt, fallback=..., inherit_options=...)
Get ==
    \E path \in SectionPaths(root, <<>>), opt \in GetNames,
       fallback \in Fallbacks, inherit_options \in InheritArguments :
        Read("get", path,
             [opt |-> opt, fallback |-> fallback,
              inherit_options |-> inherit_options],
             get(root, path, opt, fallback, inherit_options), NoExc)

\* how section[opt] ended as a call
ReadItem(path, opt, r) ==
    Read("getitem", path,
         [opt |-> opt, fallback |-> None, inherit_options |-> "None"],
         r.value, r.exc)

\* section[opt]
GetItem ==
    \E path \in SectionPaths(root, <<>>), opt \in GetNames :
        ReadItem(path, opt, __getitem__(root, path, opt))

GetNext ==
    \/ Get
    \/ GetItem

SpecGet == GetInit /\ [][GetNext]_vars

-----------------------------------------------------------------------------
(* Exporting: a file of at most MaxFileLines lines, or no file; a store    *)
(* made by ConfigFile(ExportObject) or by ConfigFile(cfile); and one of the *)
(* four export methods called on any section of the store with that file   *)
(* as its target.                                                           *)

MaxExports == 1
MaxFileLines == 2

LineOther == <<"w", " ", "=", " ", "1", "\n">>
LineHeader == <<"[", "A", "]", "\n">>
LineGone == <<"[", "G", "]", "\n">>
LineEmpty == <<"\n">>

FileLineSet ==
    {LineOption, LineOther, LineHeader, LineGone, LineComment, LineEmpty}

\* the files the target can be before the export
Files ==
    {[exists |-> TRUE, text |-> Flatten(lines)] :
        lines \in UNION {[1..n -> FileLineSet] : n \in 0..MaxFileLines}}
    \cup {NoFile}

ExportObject ==
    Sec(<<Opt("x", "0"), Opt("z", "3")>>,
        <<Sub("A", Sec(<<Opt("y", "2")>>,
                       <<Sub("b", Sec(<<Opt("q", "7")>>, <<>>))>>))>>)

\* what ConfigFile(source) can be given: the object, or the name of the file
ExportSources(file) ==
    {ObjectSource(ExportObject)}
    \cup (IF file.exists THEN {StreamSource(readlines(file.text))} ELSE {})

\* ConfigFile(source, ignore_case=...) made the store r.root
Constructed(source, r) ==
    /\ r.exc = NoExc
    /\ root = r.root
    /\ last = Call("ConfigFile", <<>>,
                   [source |-> source.type, path |-> TRUE, file |-> NoFile],
                   EMPTY_SECTION, NoExc)
           @@ [written |-> <<>>]

ExportInit ==
    /\ IGNORE_CASE \in BOOLEAN
    /\ INHERIT_OPTIONS = FALSE
    /\ ENABLE_SUBSECTIONS = TRUE
    /\ SAFE_CALLS = FALSE
    /\ cfile \in Files
    /\ \E source \in ExportSources(cfile) :
           Constructed(source,
                       _import(EMPTY_SECTION, <<>>, <<source>>, TRUE, TRUE,
                               FALSE, FALSE))
    /\ ncalls = 0

\* Section._export with the one target cfile, which ended as r
ExportedTo(op, BASE, path, r) ==
    /\ ncalls < MaxExports
    /\ cfile' = r.file
    /\ last' = Call(op, BASE,
                    [source |-> last.args.source, path |-> path,
                     file |-> cfile],
                    root, r.exc)
           @@ [written |-> r.written]
    /\ ncalls' = ncalls + 1
    /\ UNCHANGED <<root, Flags>>

\* Section._export; mode is <<overwrite, add, reset>>
_export(op, BASE, path, mode) ==
    ExportedTo(op, BASE, path,
               _export_file(root, BASE, cfile, mode[1], mode[2], mode[3],
                            path))

\* Section.export_upgrade
export_upgrade(BASE, path) ==
    _export("export_upgrade", BASE, path, <<TRUE, TRUE, FALSE>>)

\* Section.export_update
export_update(BASE, path) ==
    _export("export_update", BASE, path, <<TRUE, FALSE, FALSE>>)

\* Section.export_reset
export_reset(BASE, path) ==
    _export("export_reset", BASE, path, <<TRUE, TRUE, TRUE>>)

\* Section.export_add
export_add(BASE, path) ==
    _export("export_add", BASE, path, <<FALSE, TRUE, FALSE>>)

ExportUpgrade ==
    \E BASE \in SectionPaths(root, <<>>), path \in BOOLEAN :
        export_upgrade(BASE, path)

ExportUpdate ==
    \E BASE \in SectionPaths(root, <<>>), path \in BOOLEAN :
        export_update(BASE, path)

ExportReset ==
    \E BASE \in SectionPaths(root, <<>>), path \in BOOLEAN :
        export_reset(BASE, path)

ExportAdd ==
    \E BASE \in SectionPaths(root, <<>>), path \in BOOLEAN :
        export_add(BASE, path)

ExportNext ==
    \/ ExportUpgrade
    \/ ExportUpdate
    \/ ExportReset
    \/ ExportAdd

SpecExport == ExportInit /\ [][ExportNext]_vars

\* a file with the header of A twice and then a section the tree has not,
\* and one with the header of a child that A has not
LineUnder == <<"[", "A", ".", "G", "]", "\n">>
LineValue == <<"y", " ", "=", " ", "9", "\n">>

FileRepeated ==
    [exists |-> TRUE,
     text |-> Flatten(<<LineHeader, LineHeader, LineGone, LineOther>>)]

FileUnder ==
    [exists |-> TRUE, text |-> Flatten(<<LineUnder, LineValue>>)]

\* ConfigFile(ExportObject, safe_calls=...) and the target file
ExportFlagsInit ==
    /\ IGNORE_CASE = FALSE
    /\ INHERIT_OPTIONS = FALSE
    /\ ENABLE_SUBSECTIONS = TRUE
    /\ SAFE_CALLS \in BOOLEAN
    /\ cfile \in Files \cup {FileRepeated, FileUnder}
    /\ Constructed(ObjectSource(ExportObject),
                   _import(EMPTY_SECTION, <<>>,
                           <<ObjectSource(ExportObject)>>, TRUE, TRUE, FALSE,
                           FALSE))
    /\ ncalls = 0

SpecExportFlags == ExportFlagsInit /\ [][ExportNext]_vars

\* a tree with a section that holds nothing and one that holds only a
\* subsection: x = 0; E {}; A {b {q = 7}}
ObjectHollow ==
    Sec(<<Opt("x", "0")>>,
        <<Sub("E", EMPTY_SECTION),
          Sub("A", Sec(<<>>, <<Sub("b", Sec(<<Opt("q", "7")>>, <<>>))>>))>>)

RoundTripObjects == {ExportObject, InitObject, ObjectHollow}

\* ConfigFile(object, ignore_case=...) and a target file which is empty or
\* does not exist
RoundTripInit ==
    /\ IGNORE_CASE \in BOOLEAN
    /\ INHERIT_OPTIONS = FALSE
    /\ ENABLE_SUBSECTIONS = TRUE
    /\ SAFE_CALLS = FALSE
    /\ cfile \in {NoFile, [exists |-> TRUE, text |-> <<>>]}
    /\ \E cobj \in RoundTripObjects :
           Constructed(ObjectSource(cobj),
                       _import(EMPTY_SECTION, <<>>, <<ObjectSource(cobj)>>,
                               TRUE, TRUE, FALSE, FALSE))
    /\ ncalls = 0

SpecRoundTrip == RoundTripInit /\ [][ExportNext]_vars

-----------------------------------------------------------------------------
(* What the claims speak of                                                *)

\* a name under the configured case rule
Key(name) == IF IGNORE_CASE THEN lower(name) ELSE name

\* the names of a dictionary under the case rule, and as they are stored
Names(d) == {Key(d[i].k) : i \in DOMAIN d}
Keys(d) == [i \in DOMAIN d |-> d[i].k]

\* the entries of d that name stands for under the case rule
Named(d, name) == {i \in DOMAIN d : Key(d[i].k) = Key(name)}

\* the value the dictionary d, read in its order as a mapping under the
\* case rule, gives to name: the one of its last entry of that name
LastNamed(d, name) ==
    CHOOSE i \in Named(d, name) : \A j \in Named(d, name) : j <= i

FirstNamed(d, name) ==
    CHOOSE i \in Named(d, name) : \A j \in Named(d, name) : i <= j

IsPrefix(s, t) == Len(s) <= Len(t) /\ SubSeq(t, 1, Len(s)) = s

\* s can be obtained from t by leaving items out
RECURSIVE IsSubsequence(_, _)
IsSubsequence(s, t) ==
    \/ s = <<>>
    \/ /\ t # <<>>
       /\ \/ Head(s) = Head(t) /\ IsSubsequence(Tail(s), Tail(t))
          \/ IsSubsequence(s, Tail(t))

\* the last call was a merge of one compatible object under one of the
\* policies ops; Before and After are the section it was called on, Source
\* the object
Merged(ops) == last.op \in ops
Before == SectionAt(last.pre, last.path)
After == SectionAt(root, last.path)
Source == last.args.cobj
Completed == last.exc = NoExc

-----------------------------------------------------------------------------
(* C1: after an upgrade merge of I into a section with options P the       *)
(* section holds exactly I united with (P minus the keys of I): every       *)
(* option of I is there with I's value, every option of P that I does not   *)
(* name keeps its value, there is no other option, and so recursively for   *)
(* every child section present in both.  Names are compared under the case  *)
(* rule and I is read as a mapping under that rule.                         *)

RECURSIVE UpgradeLaw(_, _, _)
UpgradeLaw(P, I, R) ==
    /\ \A i \in DOMAIN I.opts :
           /\ Named(R.opts, I.opts[i].k) # {}
           /\ \A j \in Named(R.opts, I.opts[i].k) :
                  R.opts[j].v = I.opts[LastNamed(I.opts, I.opts[i].k)].v
    /\ \A i \in DOMAIN P.opts :
           Named(I.opts, P.opts[i].k) = {} =>
               \E j \in DOMAIN R.opts : R.opts[j] = P.opts[i]
    /\ Names(R.opts) \subseteq Names(I.opts) \cup Names(P.opts)
    /\ \A i \in DOMAIN P.subs : \A j \in Named(I.subs, P.subs[i].k) :
           /\ DictIndex(R.subs, P.subs[i].k) # 0
           /\ UpgradeLaw(P.subs[i].v, I.subs[j].v,
                         R.subs[DictIndex(R.subs, P.subs[i].k)].v)

C1_UpgradeIsUnion ==
    (Merged({"upgrade"}) /\ Completed) => UpgradeLaw(Before, Source, After)

-----------------------------------------------------------------------------
(* C2: an update merge never changes the set of option names or of child   *)
(* sections anywhere in the target; only values of options that exist in    *)
(* the target and in the source at the same section path change, to the     *)
(* source's value; source options and subtrees without a target entry are   *)
(* skipped.                                                                 *)

RECURSIVE UpdateFrame(_, _, _)
UpdateFrame(P, I, R) ==
    /\ Keys(R.opts) = Keys(P.opts)
    /\ Keys(R.subs) = Keys(P.subs)
    /\ \A i \in DOMAIN P.opts :
           R.opts[i].v # P.opts[i].v =>
               \E j \in Named(I.opts, P.opts[i].k) :
                   R.opts[i].v = I.opts[j].v
    /\ \A i \in DOMAIN P.subs :
           IF Named(I.subs, P.subs[i].k) = {}
           THEN R.subs[i].v = P.subs[i].v
           ELSE \E j \in Named(I.subs, P.subs[i].k) :
                    UpdateFrame(P.subs[i].v, I.subs[j].v, R.subs[i].v)

C2_UpdateKeepsNames ==
    Merged({"update"}) =>
        /\ UpdateFrame(Before, Source, After)
        /\ root = WithSectionAt(last.pre, last.path, After)

\* an update that changed a value at the top and in a child section, and
\* skipped an option and a subtree the target lacks
C2_Witness ==
    /\ Merged({"update"}) /\ Completed
    /\ \E i \in DOMAIN Before.opts : After.opts[i].v # Before.opts[i].v
    /\ \E i \in DOMAIN Before.subs :
           /\ After.subs[i].v.opts # Before.subs[i].v.opts
           /\ \E j \in Named(Source.subs, Before.subs[i].k) :
                  Source.subs[j].v.subs # <<>> /\ After.subs[i].v.subs = <<>>
    /\ \E i \in DOMAIN Source.opts : Named(Before.opts, Source.opts[i].k) = {}

-----------------------------------------------------------------------------
(* C3: an add merge never changes the value of a pre-existing option at    *)
(* any depth; it only introduces options and child sections absent from     *)
(* the target, and it descends into an existing matching child section to   *)
(* add that child's absent options.                                         *)

\* every option and section of P is in R where it was, with its value
RECURSIVE Preserved(_, _)
Preserved(P, R) ==
    /\ IsPrefix(P.opts, R.opts)
    /\ IsPrefix(Keys(P.subs), Keys(R.subs))
    /\ \A i \in DOMAIN P.subs : Preserved(P.subs[i].v, R.subs[i].v)

\* what R has and P has not is absent from P under the case rule too, and
\* is an entry of I
RECURSIVE OnlyAbsentAdded(_, _, _)
OnlyAbsentAdded(P, I, R) ==
    /\ \A i \in (Len(P.opts) + 1)..Len(R.opts) :
           /\ Named(P.opts, R.opts[i].k) = {}
           /\ \E j \in DOMAIN I.opts : I.opts[j] = R.opts[i]
    /\ \A i \in (Len(P.subs) + 1)..Len(R.subs) :
           /\ Named(P.subs, R.subs[i].k) = {}
           /\ DictIndex(I.subs, R.subs[i].k) # 0
    /\ \A i \in DOMAIN P.subs :
           IF Named(I.subs, P.subs[i].k) = {}
           THEN R.subs[i].v = P.subs[i].v
           ELSE \E j \in Named(I.subs, P.subs[i].k) :
                    OnlyAbsentAdded(P.subs[i].v, I.subs[j].v, R.subs[i].v)

\* the options of I's child sections that the matching child of P lacks
\* are in that child of R
DescendsToAdd(P, I, R) ==
    \A j \in DOMAIN I.subs :
        Named(P.subs, I.subs[j].k) # {} =>
            LET i == FirstNamed(P.subs, I.subs[j].k) IN
            \A o \in DOMAIN I.subs[j].v.opts :
                Named(P.subs[i].v.opts, I.subs[j].v.opts[o].k) = {} =>
                    Named(R.subs[i].v.opts, I.subs[j].v.opts[o].k) # {}

C3_AddKeepsValues ==
    Merged({"add"}) =>
        /\ Preserved(Before, After)
        /\ OnlyAbsentAdded(Before, Source, After)
        /\ Completed => DescendsToAdd(Before, Source, After)

\* an add whose source names an existing option with another value and an
\* existing child section, into which an absent option was added
C3_Witness ==
    /\ Merged({"add"}) /\ Completed
    /\ \E i \in DOMAIN Before.opts : \E j \in Named(Source.opts,
                                                   Before.opts[i].k) :
           Source.opts[j].v # Before.opts[i].v
    /\ \E i \in DOMAIN Before.subs :
           /\ Named(Source.subs, Before.subs[i].k) # {}
           /\ Len(After.subs[i].v.opts) > Len(Before.subs[i].v.opts)

-----------------------------------------------------------------------------
(* C4: a reset merge of I into a section leaves that section with exactly  *)
(* I's options and child sections: every pre-existing option and child      *)
(* section, with its descendants, is gone; {A:1, B:{C:2}} reset-merged with *)
(* {A:9, D:3} gives exactly {A:9, D:3}.                                     *)

\* R is I read as a mapping under the case rule, at every depth
RECURSIVE SameAsSource(_, _)
SameAsSource(I, R) ==
    /\ Names(R.opts) = Names(I.opts)
    /\ \A j \in DOMAIN R.opts :
           R.opts[j].v = I.opts[LastNamed(I.opts, R.opts[j].k)].v
    /\ Names(R.subs) = Names(I.subs)
    /\ \A j \in DOMAIN R.subs : \E i \in Named(I.subs, R.subs[j].k) :
           SameAsSource(I.subs[i].v, R.subs[j].v)

-----------------------------------------------------------------------------
(* C5: for upgrade, update and add merges the relative order and the       *)
(* stored spelling of pre-existing options and child sections are           *)
(* unchanged: an overwritten option keeps its position, and every newly     *)
(* added option or child section comes after all pre-existing ones, in      *)
(* source order.                                                            *)

NewKeys(old, new) == SubSeq(Keys(new), Len(old) + 1, Len(new))

RECURSIVE OrderKept(_, _, _)

\* the i-th child section of R against what it was in P (nothing, when it
\* is new) and the child sections of I it stands for
ChildOrderKept(P, I, R, i) ==
    IF Named(I.subs, R.subs[i].k) = {}
    THEN OrderKept(P, EMPTY_SECTION, R.subs[i].v)
    ELSE \E j \in Named(I.subs, R.subs[i].k) :
             OrderKept(P, I.subs[j].v, R.subs[i].v)

OrderKept(P, I, R) ==
    /\ IsPrefix(Keys(P.opts), Keys(R.opts))
    /\ IsSubsequence(NewKeys(P.opts, R.opts), Keys(I.opts))
    /\ IsPrefix(Keys(P.subs), Keys(R.subs))
    /\ IsSubsequence(NewKeys(P.subs, R.subs), Keys(I.subs))
    /\ \A i \in DOMAIN R.subs :
           ChildOrderKept(IF i <= Len(P.subs) THEN P.subs[i].v
                          ELSE EMPTY_SECTION, I, R, i)

C5_OrderAndSpellingKept ==
    Merged({"upgrade", "update", "add"}) =>
        OrderKept(Before, Source, After)

\* an upgrade that overwrote an option the source spells otherwise, which
\* is not the last of the section, and added an option after the old ones
C5_Witness ==
    /\ Merged({"upgrade"}) /\ Completed
    /\ \E i \in DOMAIN Before.opts :
           /\ i < Len(Before.opts)
           /\ After.opts[i].v # Before.opts[i].v
           /\ \E j \in Named(Source.opts, Before.opts[i].k) :
                  Source.opts[j].k # Before.opts[i].k
    /\ Len(After.opts) >= Len(Before.opts) + 1

-----------------------------------------------------------------------------
(* C6: after any sequence of merges under the four policies, option set    *)
(* and delete calls and make_subsection calls, no section holds two         *)
(* options, or two child sections, whose names are equal under the          *)
(* configured case rule.                                                    *)

UniqueIn(d) == \A i, j \in DOMAIN d : Key(d[i].k) = Key(d[j].k) => i = j

RECURSIVE UniqueNames(_)
UniqueNames(S) ==
    /\ UniqueIn(S.opts)
    /\ UniqueIn(S.subs)
    /\ \A i \in DOMAIN S.subs : UniqueNames(S.subs[i].v)

C6_NamesUnique == UniqueNames(root)

-----------------------------------------------------------------------------
(* C8: under every merge policy a source tree that contains anywhere, at   *)
(* any depth, an option name or a section name failing the identifier       *)
(* pattern makes the whole merge call fail with InvalidObjectError.         *)

InvalidHere(I) ==
    \/ \E i \in DOMAIN I.opts : ~OPTION_RE(I.opts[i].k)
    \/ \E i \in DOMAIN I.subs : ~SECTION_RE(I.subs[i].k)

RECURSIVE HasInvalid(_)
HasInvalid(I) ==
    \/ InvalidHere(I)
    \/ \E i \in DOMAIN I.subs : HasInvalid(I.subs[i].v)

AnyMerge == Merged({"upgrade", "update", "reset", "add"})

C8_InvalidNameFails ==
    (AnyMerge /\ HasInvalid(Source)) => last.exc = InvalidObjectError

\* C8 as the code has it: so it is under upgrade, add and reset; under
\* update the call fails exactly when an invalid name lies outside every
\* source subtree whose section has no matching child section in the
\* target (such a subtree is skipped unread).
RECURSIVE InvalidInMatched(_, _)
InvalidInMatched(P, I) ==
    \/ InvalidHere(I)
    \/ \E i \in DOMAIN I.subs :
           /\ Named(P.subs, I.subs[i].k) # {}
           /\ InvalidInMatched(P.subs[FirstNamed(P.subs, I.subs[i].k)].v,
                               I.subs[i].v)

C8_InvalidNameFailsWhereRead ==
    /\ (Merged({"upgrade", "reset", "add"}) /\ HasInvalid(Source))
           => last.exc = InvalidObjectError
    /\ Merged({"update"}) =>
           (InvalidInMatched(Before, Source)
                <=> last.exc = InvalidObjectError)

\* an update that failed on a name below the top level of the source
C8_Witness ==
    /\ Merged({"update"})
    /\ last.exc = InvalidObjectError
    /\ ~InvalidHere(Source)

-----------------------------------------------------------------------------
(* Interpolation paths as the claims read them                             *)

\* the last call was upgrade({y: ${items$}tail}, interpolation=True)
Interpolating ==
    last.op = "upgrade" /\ last.args.interpolation /\ last.args.items # <<>>
Items == last.args.items

\* the section a path starts from (the one that owns the value when the
\* path has one item or its first item is empty, the root otherwise), the
\* sections it descends through and the option it names
RuleStart ==
    IF Len(Items) = 1 \/ Items[1] = <<>> THEN last.path ELSE <<>>
RuleSections ==
    IF Len(Items) = 1 THEN <<>>
    ELSE IF Items[1] = <<>> THEN SubSeq(Items, 2, Len(Items) - 1)
    ELSE SubSeq(Items, 1, Len(Items) - 1)
RuleOption == Items[Len(Items)]

\* what get gives for the option name in the section at path of the tree
\* t: the option of that name under the case rule, looked for in the
\* parent sections too when options are inherited
RECURSIVE Lookup(_, _, _)
Lookup(t, path, name) ==
    LET opts == SectionAt(t, path).opts IN
    IF Named(opts, name) # {}
    THEN Some(opts[FirstNamed(opts, name)].v)
    ELSE IF INHERIT_OPTIONS /\ path # <<>>
    THEN Lookup(t, SubSeq(path, 1, Len(path) - 1), name)
    ELSE None

\* the stored path of the section reached from the section at path of t
\* through the sections the names segs stand for under the case rule
RECURSIVE Descend(_, _, _)
Descend(t, path, segs) ==
    IF segs = <<>>
    THEN [ok |-> TRUE, path |-> path]
    ELSE LET subs == SectionAt(t, path).subs IN
         IF Named(subs, Head(segs)) = {}
         THEN [ok |-> FALSE, path |-> path]
         ELSE Descend(t, Append(path, subs[FirstNamed(subs, Head(segs))].k),
                      Tail(segs))

\* the value the call left in the option it imported
Interpolation == After.opts[FirstNamed(After.opts, InterpOption)].v

-----------------------------------------------------------------------------
(* C7: with ignore_case on, a name that differs only in letter case from a *)
(* stored option or child-section name refers to that same entry in every   *)
(* operation that takes a name, the section segments of an interpolation    *)
(* path among them; with ignore_case off the two spellings are distinct     *)
(* entries.  Here: an interpolation path whose sections and option exist    *)
(* under the case rule resolves to that option's value, and a path that     *)
(* names a section in another spelling does not resolve with ignore_case    *)
(* off.                                                                     *)

Referred == Descend(last.pre, RuleStart, RuleSections)

C7_CaseRuleInInterpolationPaths ==
    Interpolating =>
        IF Referred.ok /\ Lookup(last.pre, Referred.path, RuleOption).some
        THEN /\ Completed
             /\ Interpolation =
                    Lookup(last.pre, Referred.path, RuleOption).v
                        \o last.args.tail
        ELSE ~Completed

-----------------------------------------------------------------------------
(* C9: parsing a source in which some line is not blank, not a comment,    *)
(* not an option assignment and not a section header fails with             *)
(* ParsingError, and the error carries that line's text and its 1-based     *)
(* line number.                                                             *)

InvalidLine(line) ==
    /\ ~PARSE_IGNORE(line)
    /\ ~PARSE_COMMENT(line)
    /\ ~PARSE_OPTION(line)
    /\ ~PARSE_SECTION(line)

FirstInvalid(stream) ==
    CHOOSE i \in DOMAIN stream :
        /\ InvalidLine(stream[i])
        /\ \A j \in 1..(i - 1) : ~InvalidLine(stream[j])

C9_InvalidLineIsParsingError ==
    (/\ last.op = "upgrade"
     /\ \E i \in DOMAIN last.args.stream : InvalidLine(last.args.stream[i]))
        => /\ last.exc = ParsingError
           /\ last.line = last.args.stream[FirstInvalid(last.args.stream)]
           /\ last.lineno = FirstInvalid(last.args.stream)

-----------------------------------------------------------------------------
(* C10: when an interpolation path is closed by "$}" its last item is the  *)
(* option name: with a single item the option is looked up, via get, in the *)
(* section that owns the value; with a leading empty item the remaining     *)
(* items descend from that owning section; otherwise all leading items      *)
(* descend from the root of the whole tree, whichever section the import    *)
(* was called on.  With [A] x = 1 and [B] y = ${A$:x$} tail, B.y becomes    *)
(* "1 tail".                                                                *)

RuleSection == RuleStart \o RuleSections

C10_PathResolution ==
    (Interpolating /\ Completed) =>
        /\ HasSectionAt(last.pre, RuleSection)
        /\ Lookup(last.pre, RuleSection, RuleOption).some
        /\ Interpolation =
               Lookup(last.pre, RuleSection, RuleOption).v \o last.args.tail

\* the scenario: the import is called on B, whose x is 3, and y becomes
\* "1 tail" from the x of A
C10_Witness ==
    /\ Interpolating /\ Completed
    /\ last.path = <<<<"B">>>>
    /\ Items = << <<"A">>, <<"x">> >>
    /\ SectionAt(last.pre, <<<<"A">>>>).opts = <<Opt("x", "1")>>
    /\ SectionAt(last.pre, <<<<"B">>>>).opts = <<Opt("x", "3")>>
    /\ Interpolation = <<"1", " ", "t", "a", "i", "l">>

-----------------------------------------------------------------------------
(* C11: if an option value ends while an interpolation path is still open, *)
(* interpolation raises no error and the open path is re-emitted as literal *)
(* text with its opening marker and separators: a value whose only markers  *)
(* are an unclosed "${" and following "$:" separators (as "${x" or          *)
(* "a ${s$:x") is left unchanged by interpolation.                          *)

\* the last call was upgrade({y: val}, ..., interpolation=True) with a value
\* of the set vals
ImportedLiteral(vals) ==
    /\ last.op = "upgrade"
    /\ last.args.interpolation
    /\ last.args.items = <<>>
    /\ last.args.val \in vals

\* no value of the tree has the special character
RECURSIVE NoMarkers(_)
NoMarkers(S) ==
    /\ \A i \in DOMAIN S.opts : \A j \in DOMAIN S.opts[i].v :
           S.opts[i].v[j] # INTERPOLATION_SPECIAL
    /\ \A i \in DOMAIN S.subs : NoMarkers(S.subs[i].v)

C11_UnclosedPathIsLiteral ==
    ImportedLiteral(UnclosedValues) =>
        /\ InterpolateValue(last.pre, last.path, last.args.val) =
               [value |-> last.args.val, exc |-> NoExc]
        /\ Completed => Interpolation = last.args.val
        /\ NoMarkers(last.pre) => Completed

\* "a ${s$:x" was imported with interpolation and is stored as it was
C11_Witness ==
    /\ ImportedLiteral({ValueOpenSep}) /\ Completed
    /\ Interpolation = <<"a", " ", "$", "{", "s", "$", ":", "x">>

-----------------------------------------------------------------------------
(* C12: an import call with interpolation enabled rewrites every option    *)
(* value exactly once, also when several sources are passed in the same     *)
(* call: a value already produced by the resolver is never scanned by the   *)
(* resolver a second time, so "$$$$" ends as "$$" and "$${x$}" ends as the  *)
(* literal "${x$}".                                                         *)

C12_InterpolatedOnce ==
    (ImportedLiteral(LiteralValues) /\ Completed) =>
        /\ Interpolation =
               InterpolateValue(last.pre, last.path, last.args.val).value
        /\ last.args.val = ValueEscapes => Interpolation = <<"$", "$">>
        /\ last.args.val = ValueEscapedStart =>
               Interpolation = <<"$", "{", "x", "$", "}">>

-----------------------------------------------------------------------------
(* Reading options as the claims read it                                   *)

\* whether the ancestors are looked in: the argument of the call, and the
\* setting of the object when the call gives none
Inherits ==
    IF last.args.inherit_options = "None" THEN INHERIT_OPTIONS
    ELSE last.args.inherit_options = "True"

\* the section at path defines an option of that name under the case rule
Defines(t, path, name) == Named(SectionAt(t, path).opts, name) # {}
Defined(t, path, name) ==
    SectionAt(t, path).opts[FirstNamed(SectionAt(t, path).opts, name)].v

\* the proper prefixes of path that define name: the ancestors defining it
DefiningAncestors(t, path, name) ==
    {n \in 0..(Len(path) - 1) : Defines(t, SubSeq(path, 1, n), name)}

\* the nearest of them: the longest prefix
NearestAncestor(t, path, name) ==
    SubSeq(path, 1,
           CHOOSE n \in DefiningAncestors(t, path, name) :
               \A m \in DefiningAncestors(t, path, name) : m <= n)

\* the option does not exist in the section, nor in its ancestors when
\* inheritance applies
NotFound ==
    /\ ~Defines(root, last.path, last.args.opt)
    /\ Inherits => DefiningAncestors(root, last.path, last.args.opt) = {}

-----------------------------------------------------------------------------
(* C13: calling get for an option name that does not exist (in the         *)
(* section, nor in its ancestors when inheritance applies) without a        *)
(* fallback signals a not-found error (KeyError) instead of returning a     *)
(* value; when a fallback string is supplied, get returns that string.      *)

C13_GetNotFound ==
    (last.op = "get" /\ NotFound) =>
        IF last.args.fallback.some
        THEN last.exc = NoExc /\ last.result = last.args.fallback
        ELSE last.exc = KeyError

-----------------------------------------------------------------------------
(* C14: with inherit_options on, get(k) on a section that does not itself  *)
(* define k returns the value of k in the nearest ancestor that defines it  *)
(* (the section's own value always wins when present); with inherit_options *)
(* off, ancestors are never consulted.                                      *)

C14_InheritsFromNearest ==
    last.op = "get" =>
        /\ last.exc = NoExc
        /\ IF Defines(root, last.path, last.args.opt)
           THEN last.result = Some(Defined(root, last.path, last.args.opt))
           ELSE IF Inherits
                   /\ DefiningAncestors(root, last.path, last.args.opt) # {}
           THEN last.result =
                    Some(Defined(root,
                                 NearestAncestor(root, last.path,
                                                 last.args.opt),
                                 last.args.opt))
           ELSE last.result = last.args.fallback

\* get('x') on A.c, which has no x, gave the '1' of A, not the '0' of the
\* root
C14_Witness ==
    /\ last.op = "get"
    /\ Inherits
    /\ last.path = <<<<"A">>, <<"c">>>>
    /\ last.args.opt = <<"x">>
    /\ ~Defines(root, last.path, last.args.opt)
    /\ Defined(root, <<>>, <<"x">>) = <<"0">>
    /\ last.result = Some(<<"1">>)

-----------------------------------------------------------------------------
(* What the claims about exporting speak of                                *)

\* the last call was one of the export methods named in ops
Exporting(ops) == last.op \in ops

ExportMethods ==
    {"export_upgrade", "export_update", "export_reset", "export_add"}

\* the target file as it was before the export, and as it is after it
FileBefore == last.args.file
FileAfter == cfile

\* the store a fresh ConfigFile(file) holds, or the error of parsing it
Parsed(file) ==
    _import(EMPTY_SECTION, <<>>, <<StreamSource(readlines(file.text))>>, TRUE,
            TRUE, FALSE, FALSE)

\* the file is well-formed: a fresh store parses it without an error
WellFormed(file) == file.exists /\ Parsed(file).exc = NoExc

-----------------------------------------------------------------------------
(* C15: when the store is what parsing a well-formed file into a fresh     *)
(* store gives, export_upgrade of the store into that file ends without an *)
(* error and leaves the text of the file as it was.                        *)

C15_RoundTrip ==
    (/\ Exporting({"export_upgrade"})
     /\ last.path = <<>>
     /\ WellFormed(FileBefore)
     /\ Parsed(FileBefore).root = last.pre)
        => /\ last.exc = NoExc
           /\ FileAfter.exists
           /\ FileAfter.text = FileBefore.text

-----------------------------------------------------------------------------
(* C16: what an export writes is the lines of the file in their order,     *)
(* with new option lines and new section blocks put in.  The claim has     *)
(* everything new after all the lines of the file; the code writes the new *)
(* options of a section where the part of the file that belongs to the     *)
(* section has its last option line, ahead of the comment and blank lines   *)
(* and of the header that follow, and only the new sections after all the   *)
(* lines of the file.                                                       *)

\* the lines of the file that the export goes through
LinesBefore == FileLines(FileBefore)

\* the strings the export wrote
Written == last.written

\* w is the line l as it was, or l with its value written anew
Kin(w, l) ==
    \/ w = l
    \/ /\ PARSE_OPTION(l)
       /\ PARSE_OPTION(w)
       /\ w = OptionLine(OptionGroup1(l), OptionGroup2(w))

\* the sections the export can write: the section exported and its
\* descendants
ExportedSections ==
    {p \in SectionPaths(root, <<>>) : InAncestry(last.path, p)}

\* w is the line of an option of one of those sections
NewOption(w) ==
    \E p \in ExportedSections :
        \E i \in DOMAIN SectionAt(root, p).opts :
            w = OptionLine(SectionAt(root, p).opts[i].k,
                           SectionAt(root, p).opts[i].v)

\* w is the header of one of those sections, after a blank line or not
NewSection(w) ==
    \E p \in ExportedSections, BR \in {<<>>, <<"\n">>} :
        w = SectionLine(BR, HeaderNames(last.path, p, last.args.path))

\* w is not a comment, blank or unrecognized line
OptionOrSection(w) == PARSE_OPTION(w) \/ PARSE_SECTION(w)

\* lines of the file can be missing from what was written
LinesDropped == Exporting({"export_reset"}) \/ last.exc # NoExc

\* what was written from the j-th string on is the lines of the file from
\* the i-th on, in their order, each as it was or with its value written
\* anew, with new options put in after an option or a header line, and
\* ending with the new sections
RECURSIVE Aligned(_, _, _, _, _)
Aligned(L, i, W, j, tail) ==
    IF j > Len(W)
    THEN i > Len(L) \/ LinesDropped
    ELSE \/ /\ ~tail
            /\ i <= Len(L)
            /\ Kin(W[j], L[i])
            /\ Aligned(L, i + 1, W, j + 1, FALSE)
         \/ /\ NewOption(W[j])
            /\ tail \/ j = 1 \/ OptionOrSection(W[j - 1])
            /\ Aligned(L, i, W, j + 1, tail)
         \/ /\ NewSection(W[j])
            /\ Aligned(L, i, W, j + 1, TRUE)
         \/ /\ ~tail
            /\ Exporting({"export_reset"})
            /\ W[j] = <<"\n">>
            /\ Aligned(L, i, W, j + 1, FALSE)
         \/ /\ ~tail
            /\ LinesDropped
            /\ i <= Len(L)
            /\ Aligned(L, i + 1, W, j, FALSE)

-----------------------------------------------------------------------------
(* C17: after export_reset of the root section has ended without an error, *)
(* a fresh store parses the file without an error and holds exactly the    *)
(* options and the sections of the store exported: what the file had and   *)
(* the store has not is gone from it.                                      *)

C17_ResetLeavesOnlyTree ==
    (/\ Exporting({"export_reset"})
     /\ last.path = <<>>
     /\ last.exc = NoExc)
        => /\ Parsed(FileAfter).exc = NoExc
           /\ Parsed(FileAfter).root = root

-----------------------------------------------------------------------------
(* C18: a section that is not the root is exported to a file that is empty *)
(* or does not exist.  With path=False the file gets the lines of the      *)
(* options of the section, without a header for it, and then its           *)
(* descendants under headers counted from the section; with path=True it   *)
(* gets the header of the section counted from the root, the lines of its  *)
(* options, and its descendants under headers counted from the root.  The  *)
(* claim has this of every export; it is so when the policy adds, and      *)
(* export_update writes nothing.                                           *)

\* the lines "option = value" of the options of the section at path p
OptionText(p) ==
    Flatten([i \in DOMAIN SectionAt(root, p).opts |->
                SectionAt(root, p).opts[i].k \o <<" ", "=", " ">>
                    \o SectionAt(root, p).opts[i].v \o <<"\n">>])

\* the header line "[a.b]" of the names
HeaderText(names) ==
    <<"[">> \o join(<<".">>, names) \o <<"]", "\n">>

\* the descendants of the section at path p, each followed by its own
RECURSIVE Descendants(_)
RECURSIVE DescendantsOfSubs(_, _)
DescendantsOfSubs(p, i) ==
    IF i > Len(SectionAt(root, p).subs) THEN <<>>
    ELSE Descendants(Append(p, SectionAt(root, p).subs[i].k))
         \o DescendantsOfSubs(p, i + 1)

Descendants(p) == <<p>> \o DescendantsOfSubs(p, 1)

\* the sections ps from the i-th on that have options, each as its header
\* with the first skip names left out and the lines of its options, a blank
\* line between two of them and ahead of the first if started
RECURSIVE Blocks(_, _, _, _)
Blocks(ps, i, skip, started) ==
    IF i > Len(ps) THEN <<>>
    ELSE IF SectionAt(root, ps[i]).opts = <<>>
    THEN Blocks(ps, i + 1, skip, started)
    ELSE (IF started THEN <<"\n">> ELSE <<>>)
         \o HeaderText(SubSeq(ps[i], skip + 1, Len(ps[i])))
         \o OptionText(ps[i])
         \o Blocks(ps, i + 1, skip, TRUE)

\* what the claim has in the file after the section at path p is exported
SectionAlone(p, path) ==
    IF path
    THEN Blocks(Descendants(p), 1, 0, FALSE)
    ELSE OptionText(p)
         \o Blocks(Tail(Descendants(p)), 1, Len(p),
                   SectionAt(root, p).opts # <<>>)

\* the file was empty or did not exist
EmptyBefore == ~FileBefore.exists \/ FileBefore.text = <<>>

\* a section that is not the root was exported by one of ops to such a file
ExportedAlone(ops) ==
    /\ Exporting(ops)
    /\ last.path # <<>>
    /\ EmptyBefore

\* C18 as the spec has it: of every export method
C18_SectionAlone ==
    ExportedAlone(ExportMethods)
        => /\ last.exc = NoExc
           /\ FileAfter.exists
           /\ FileAfter.text = SectionAlone(last.path, last.args.path)

\* C18 as the code has it: of the export methods that add
C18_SectionAloneWhenAdding ==
    /\ ExportedAlone({"export_upgrade", "export_reset", "export_add"})
           => /\ last.exc = NoExc
              /\ FileAfter.exists
              /\ FileAfter.text = SectionAlone(last.path, last.args.path)
    /\ ExportedAlone({"export_update"})
           => /\ last.exc = NoExc
              /\ FileAfter.exists
              /\ FileAfter.text = <<>>

\* C18: a section with options and a descendant with options was exported
\* with path=False to a file that did not exist
C18_Witness ==
    /\ ExportedAlone({"export_upgrade", "export_reset", "export_add"})
    /\ ~FileBefore.exists
    /\ ~last.args.path
    /\ SectionAt(root, last.path).opts # <<>>
    /\ \E d \in SectionPaths(root, <<>>) :
           /\ Len(d) > Len(last.path)
           /\ InAncestry(last.path, d)
           /\ SectionAt(root, d).opts # <<>>

-----------------------------------------------------------------------------
(* C19: export_reset called with its default arguments (path=True) on a    *)
(* section that is not the root and has no subsections, the target being a *)
(* file that does not exist, leaves in the file the lines of the options   *)
(* of the section and nothing else: no header line.                        *)

C19_DefaultResetWritesNoHeader ==
    (/\ Exporting({"export_reset"})
     /\ last.args.path
     /\ last.path # <<>>
     /\ SectionAt(root, last.path).subs = <<>>
     /\ ~FileBefore.exists)
        => /\ FileAfter.text = OptionText(last.path)
           /\ \A i \in DOMAIN Written : ~PARSE_SECTION(Written[i])

-----------------------------------------------------------------------------
(* C20: after export_upgrade, export_update or export_add every line of    *)
(* the file that follows its leading blank lines is in what was written,   *)
(* in the order of the file, as it was; only the line of an option that    *)
(* the exported sections hold with another value can be there as           *)
(* "key = value" instead, and only when the policy overwrites.             *)

\* w is the line l of an option with the value that the exported sections
\* have for it, which is not the value of l
Overwritten(w, l) ==
    /\ ~Exporting({"export_add"})
    /\ PARSE_OPTION(l)
    /\ PARSE_OPTION(w)
    /\ w = OptionLine(OptionGroup1(l), OptionGroup2(w))
    /\ OptionGroup2(w) # OptionGroup2(l)
    /\ \E p \in ExportedSections :
           \E i \in DOMAIN SectionAt(root, p).opts :
               /\ Key(SectionAt(root, p).opts[i].k) = Key(OptionGroup1(l))
               /\ SectionAt(root, p).opts[i].v = OptionGroup2(w)

\* the lines L from the i-th on are among the strings W from the j-th on,
\* in their order, each as it was or overwritten
RECURSIVE Retained(_, _, _, _)
Retained(L, i, W, j) ==
    \/ i > Len(L)
    \/ \E k \in j..Len(W) :
           /\ W[k] = L[i] \/ Overwritten(W[k], L[i])
           /\ Retained(L, i + 1, W, k + 1)

C20_NoLineDeleted ==
    Exporting({"export_upgrade", "export_update", "export_add"})
        => Retained(LinesBefore, 1, Written, 1)

-----------------------------------------------------------------------------
(* C21: a child section that a merge creates holds the options and the     *)
(* descendants of the source subtree.  The claim has each option with the  *)
(* value of the source whatever the overwrite flag, the child being what   *)
(* an upgrade of an empty section with the subtree gives; in the code the  *)
(* overwrite flag of the policy still decides between two spellings of one *)
(* name in the subtree: under add the first of them gives the value.       *)

\* the i-th child of the source is created by the merge: the policy adds,
\* and no child of the target, nor another child of the source, has its name
CreatedChild(i) ==
    /\ Merged({"upgrade", "add", "reset"})
    /\ Completed
    /\ i \in DOMAIN Source.subs
    /\ \/ Merged({"reset"})
       \/ /\ Named(Before.subs, Source.subs[i].k) = {}
          /\ Named(Source.subs, Source.subs[i].k) = {i}

\* the child the merge created for the i-th child of the source
NewChild(i) == After.subs[DictIndex(After.subs, Source.subs[i].k)].v

\* the entry of the source dictionary d that gives its value to name
Giving(d, name, overwrite) ==
    IF overwrite THEN LastNamed(d, name) ELSE FirstNamed(d, name)

\* the section c holds the options and the descendants of the subtree I,
\* under the first spelling of each name and in the order of I
RECURSIVE Populated(_, _, _)
Populated(c, I, overwrite) ==
    /\ Names(c.opts) = Names(I.opts)
    /\ UniqueIn(c.opts)
    /\ IsSubsequence(Keys(c.opts), Keys(I.opts))
    /\ \A n \in DOMAIN c.opts :
           /\ FirstNamed(I.opts, c.opts[n].k) = DictIndex(I.opts, c.opts[n].k)
           /\ c.opts[n].v = I.opts[Giving(I.opts, c.opts[n].k, overwrite)].v
    /\ Names(c.subs) = Names(I.subs)
    /\ UniqueIn(c.subs)
    /\ IsSubsequence(Keys(c.subs), Keys(I.subs))
    /\ \A n \in DOMAIN c.subs :
           Named(I.subs, c.subs[n].k) = {DictIndex(I.subs, c.subs[n].k)}
               => Populated(c.subs[n].v,
                            I.subs[DictIndex(I.subs, c.subs[n].k)].v,
                            overwrite)

\* C21 as the spec has it: the new child is the subtree merged into an
\* empty section with overwrite and add on
C21_NewChildIsUpgraded ==
    \A i \in DOMAIN last.args.cobj.subs :
        CreatedChild(i)
            => /\ DictIndex(After.subs, Source.subs[i].k) # 0
               /\ NewChild(i) = _import_object(EMPTY_SECTION,
                                               Source.subs[i].v, TRUE, TRUE,
                                               FALSE).sec

\* C21 as the code has it: the new child is populated with the overwrite
\* flag of the policy
C21_NewChildIsPopulated ==
    \A i \in DOMAIN last.args.cobj.subs :
        CreatedChild(i)
            => /\ DictIndex(After.subs, Source.subs[i].k) # 0
               /\ Populated(NewChild(i), Source.subs[i].v,
                            ~Merged({"add"}))

\* C21: an add merge created a child from a subtree that has an option and
\* a child section
C21_Witness ==
    /\ Merged({"add"})
    /\ \E i \in DOMAIN last.args.cobj.subs :
           /\ CreatedChild(i)
           /\ Source.subs[i].v.opts # <<>>
           /\ Source.subs[i].v.subs # <<>>
           /\ NewChild(i).subs # <<>>

-----------------------------------------------------------------------------
(* C22: a merge that fails with InvalidObjectError leaves the section as   *)
(* the merge of the part of the source that comes before the offending key *)
(* leaves it: the options of a node come before its child sections, a      *)
(* reset has cleared the section, nothing after the key is applied.  The   *)
(* claim has every entry before the key applied; the entries of a child    *)
(* section that the merge was creating when it met the key are not, for    *)
(* the new section is never attached.                                      *)

\* the flags of the policy of the last merge
OverwriteOn == ~Merged({"add"})
AddOn == ~Merged({"update"})
ResetOn == Merged({"reset"})

\* the first option of I with an invalid name, 0 if there is none
FirstInvalidOption(I) ==
    IF \E i \in DOMAIN I.opts : ~OPTION_RE(I.opts[i].k)
    THEN CHOOSE i \in DOMAIN I.opts :
             /\ ~OPTION_RE(I.opts[i].k)
             /\ \A j \in 1..(i - 1) : OPTION_RE(I.opts[j].k)
    ELSE 0

\* the child of T that the name stands for, an empty section if none does
ChildNamed(T, name) ==
    IF Named(T.subs, name) = {} THEN EMPTY_SECTION
    ELSE T.subs[FirstNamed(T.subs, name)].v

\* the merge of I into T meets an invalid name: unless the policy adds, the
\* children of I that T has not are not read
RECURSIVE MeetsInvalid(_, _, _)
MeetsInvalid(T, I, adds) ==
    \/ InvalidHere(I)
    \/ \E i \in DOMAIN I.subs :
           /\ adds \/ Named(T.subs, I.subs[i].k) # {}
           /\ MeetsInvalid(ChildNamed(T, I.subs[i].k), I.subs[i].v, adds)

\* the first child of I at which the merge into T fails, 0 if there is none
FailingChild(T, I, adds) ==
    LET fails(i) ==
            \/ ~SECTION_RE(I.subs[i].k)
            \/ /\ adds \/ Named(T.subs, I.subs[i].k) # {}
               /\ MeetsInvalid(ChildNamed(T, I.subs[i].k), I.subs[i].v, adds)
    IN  IF \E i \in DOMAIN I.subs : fails(i)
        THEN CHOOSE i \in DOMAIN I.subs :
                 fails(i) /\ \A j \in 1..(i - 1) : ~fails(j)
        ELSE 0

\* the part of the source I that the merge into T goes through before the
\* offending key; created tells whether the part of a child section that T
\* has not is counted in
RECURSIVE Cut(_, _, _, _)
CutAtChild(T, I, adds, created, j) ==
    IF j = 0 THEN I
    ELSE IF /\ SECTION_RE(I.subs[j].k)
            /\ created \/ Named(T.subs, I.subs[j].k) # {}
    THEN [I EXCEPT !.subs =
              Append(SubSeq(I.subs, 1, j - 1),
                     [k |-> I.subs[j].k,
                      v |-> Cut(ChildNamed(T, I.subs[j].k), I.subs[j].v, adds,
                                created)])]
    ELSE [I EXCEPT !.subs = SubSeq(I.subs, 1, j - 1)]

CutAtOption(T, I, adds, created, j) ==
    IF j # 0
    THEN [opts |-> SubSeq(I.opts, 1, j - 1), subs |-> <<>>]
    ELSE CutAtChild(T, I, adds, created, FailingChild(T, I, adds))

Cut(T, I, adds, created) ==
    CutAtOption(T, I, adds, created, FirstInvalidOption(I))

\* the section is what the merge r, which did not fail, leaves
LeftAs(r) == r.exc = NoExc /\ After = r.sec

\* the merge of the part of the source before the offending key
MergeOfCut(created) ==
    _import_object(Before,
                   Cut(IF ResetOn THEN EMPTY_SECTION ELSE Before, Source,
                       AddOn, created),
                   OverwriteOn, AddOn, ResetOn)

\* C22 as the spec has it: every entry before the offending key is applied
C22_AppliedUpToOffendingKey ==
    (AnyMerge /\ last.exc = InvalidObjectError) => LeftAs(MergeOfCut(TRUE))

\* C22 as the code has it: but for those of a child section being created
C22_AppliedUnlessCreating ==
    (AnyMerge /\ last.exc = InvalidObjectError) => LeftAs(MergeOfCut(FALSE))

\* C22: a merge failed below the top of the source after it had changed the
\* section
C22_Witness ==
    /\ AnyMerge
    /\ last.exc = InvalidObjectError
    /\ FirstInvalidOption(Source) = 0
    /\ After # Before

-----------------------------------------------------------------------------
(* C27: when a policy that adds merges a source whose i-th child section   *)
(* has a valid name that no child of the target and no other child of the  *)
(* source has, and the subtree of that child holds an invalid name at any   *)
(* depth, the merge fails with InvalidObjectError and the section has no    *)
(* child of that name afterwards.                                          *)

\* the merge has to create a child for the i-th child of the source, whose
\* subtree holds an invalid name
CreatesInvalid(i) ==
    /\ Merged({"upgrade", "add", "reset"})
    /\ i \in DOMAIN Source.subs
    /\ SECTION_RE(Source.subs[i].k)
    /\ Named(Before.subs, Source.subs[i].k) = {}
    /\ Named(Source.subs, Source.subs[i].k) = {i}
    /\ HasInvalid(Source.subs[i].v)

C27_CreationIsAllOrNothing ==
    \A i \in DOMAIN last.args.cobj.subs :
        CreatesInvalid(i)
            => /\ last.exc = InvalidObjectError
               /\ Named(After.subs, Source.subs[i].k) = {}

\* C27: the merge went through the options of the source and failed in the
\* subtree of the child it was creating, below valid entries of it
C27_Witness ==
    /\ last.exc = InvalidObjectError
    /\ FirstInvalidOption(Source) = 0
    /\ \E i \in DOMAIN last.args.cobj.subs :
           /\ CreatesInvalid(i)
           /\ FailingChild(IF ResetOn THEN EMPTY_SECTION ELSE Before, Source,
                           TRUE) = i
           /\ Source.subs[i].v.opts # <<>>
           /\ FirstInvalidOption(Source.subs[i].v) = 0

-----------------------------------------------------------------------------
(* C24: one interpolation pass goes through the options of a section in    *)
(* their order and then through its child sections.  A path to an option   *)
(* that comes later gets the text of that option as it was imported, a     *)
(* path to an option that came earlier gets its resolved text, and the     *)
(* text got is not interpolated again.                                     *)

\* upgrade(ChainObject, interpolation=True) returned
ChainUpgraded ==
    /\ last.op = "upgrade"
    /\ last.args.interpolation
    /\ last.args.sources = 1
    /\ last.args.items = <<>>
    /\ last.args.val = <<>>
    /\ Completed

\* the value of the option named opt of the section S
ValueOf(S, opt) == S.opts[DictIndex(S.opts, opt)].v

\* the value of x that the section had for the pass
TreeValue == get(last.pre, last.path, <<"x">>, None, "None").v

C24_SinglePass ==
    ChainUpgraded
        => /\ ValueOf(After, <<"a">>) = RefTree
           /\ ValueOf(After, <<"b">>) = TreeValue
           /\ ValueOf(After, <<"c">>) = TreeValue
           /\ ValueOf(After, <<"d">>) = ValueEscapes
           /\ ValueOf(ChildNamed(After, <<"n">>), <<"e">>) = <<"$", "$">>
           /\ ValueOf(ChildNamed(After, <<"n">>), <<"f">>) = <<"$", "$">>

\* C24: the pass ran on a section that has the option x
C24_Witness ==
    /\ ChainUpgraded
    /\ last.path # <<>>
    /\ DictIndex(Before.opts, <<"x">>) # 0
    /\ ValueOf(After, <<"c">>) = ValueOf(Before, <<"x">>)

-----------------------------------------------------------------------------
(* C28: an import called on a section, under any of the four policies and  *)
(* with interpolation, whether it returns or raises, leaves the section    *)
(* where it was in the tree and changes nothing of the tree but the        *)
(* section and what is below it.                                           *)

\* the tree t without what the section at path holds
Outside(t, path) == WithSectionAt(t, path, EMPTY_SECTION)

\* the last call was an import
Imported == last.op \in {"upgrade", "update", "reset", "add"}

C28_OnlySubtreeChanges ==
    Imported
        => /\ HasSectionAt(root, last.path)
           /\ Outside(root, last.path) = Outside(last.pre, last.path)

\* C28: an import with interpolation changed a section that has a sibling
\* with an escaped special character in a value
C28_Witness ==
    /\ Imported
    /\ last.args.interpolation
    /\ last.path = << <<"A">> >>
    /\ After # Before
    /\ ~NoMarkers(SectionAt(last.pre, << <<"B">> >>))
    /\ SectionAt(root, << <<"B">> >>) = SectionAt(last.pre, << <<"B">> >>)

-----------------------------------------------------------------------------
(* C26: an export into a file that the parser accepts (or that does not    *)
(* exist) ends without an exception, whatever the tree, the policy and the *)
(* flags, and then every line of the file was processed: also when a       *)
(* header occurs twice, and when SAFE_CALLS is on and a header is unknown. *)

C26_ExportCompletes ==
    /\ Exporting(ExportMethods)
    /\ FileBefore.exists => Parsed(FileBefore).exc = NoExc
    => last.exc = NoExc

-----------------------------------------------------------------------------
(* C23: in an export under any policy and with SAFE_CALLS on or off, a     *)
(* header of the file whose names do not lead to a section of the tree and *)
(* the lines after it up to the next header are written as they were, one  *)
(* after the other, and what is written next is a header or nothing: no    *)
(* option of the tree is written anew or added among them.                 *)

\* the line is a section header for the export, which tries the pattern of
\* an option first
IsHeader(line) == ~PARSE_OPTION(line) /\ PARSE_SECTION(line)

\* the names of the header lead to a section of the tree, from the root
\* section or, without full paths, from the exported one
Resolves(line) ==
    __call__(root, IF last.args.path THEN <<>> ELSE last.path,
             _parse_subsections(SectionGroup1(line)), "False").exc = NoExc

\* the last line of the region that the i-th line of L starts
RECURSIVE RegionEnd(_, _)
RegionEnd(L, i) ==
    IF i + 1 > Len(L) \/ IsHeader(L[i + 1]) THEN i ELSE RegionEnd(L, i + 1)

Region(L, i) == SubSeq(L, i, RegionEnd(L, i))

\* the strings written from the j-th on are the lines R, and a header or
\* nothing follows them
WrittenAlone(R, j) ==
    /\ j + Len(R) - 1 <= Len(Written)
    /\ SubSeq(Written, j, j + Len(R) - 1) = R
    /\ \/ j + Len(R) > Len(Written)
       \/ IsHeader(Written[j + Len(R)])
       \/ NewSection(Written[j + Len(R)])

C23_UnresolvedRegionIsReadOnly ==
    Exporting(ExportMethods)
        => \A i \in DOMAIN LinesBefore :
               IsHeader(LinesBefore[i]) /\ ~Resolves(LinesBefore[i])
                   => \E j \in DOMAIN Written :
                          WrittenAlone(Region(LinesBefore, i), j)

-----------------------------------------------------------------------------
(* C25: export_reset of a section that is not the root, with full paths in *)
(* the headers, writes back as they were the lines of the file above its   *)
(* first header and, for every header that names neither the exported      *)
(* section nor a descendant of it, the header and the lines up to the next *)
(* header, comments and blank lines among them.                            *)

\* the section that the names of the header lead to from the root section
Named_by(line) ==
    __call__(root, <<>>, _parse_subsections(SectionGroup1(line)), "False")

\* the header names the exported section or one of its descendants
NamesExported(line) ==
    /\ Named_by(line).exc = NoExc
    /\ InAncestry(last.path, Named_by(line).section)

\* the lines above the first header
RECURSIVE TopLines(_)
TopLines(L) ==
    IF L = <<>> \/ IsHeader(Head(L)) THEN <<>>
    ELSE <<Head(L)>> \o TopLines(Tail(L))

\* the lines R were written one after the other
WrittenBack(R) ==
    \E j \in 1..(Len(Written) + 1) :
        /\ j + Len(R) - 1 <= Len(Written)
        /\ SubSeq(Written, j, j + Len(R) - 1) = R

C25_ResetKeepsTheRest ==
    /\ Exporting({"export_reset"})
    /\ last.path # <<>>
    /\ last.args.path
    => /\ IsPrefix(TopLines(LinesBefore), Written)
       /\ \A i \in DOMAIN LinesBefore :
              IsHeader(LinesBefore[i]) /\ ~NamesExported(LinesBefore[i])
                  => WrittenBack(Region(LinesBefore, i))

-----------------------------------------------------------------------------
(* C30: after export_upgrade of the root section into a file that the      *)
(* parser accepts, a fresh store parses the file as it is now, and in it    *)
(* every option of every section of the tree has the value the tree gives  *)
(* it, also when the file had two lines for the same option in a section.  *)

\* the store parsed from the file gives the option opt of the section at
\* path the value it has in the tree
Reflected(r, path, opt) ==
    /\ r.exc = NoExc
    /\ HasSectionAt(r.root, path)
    /\ __getitem__(r.root, path, opt.k).exc = NoExc
    /\ __getitem__(r.root, path, opt.k).value.v = opt.v

C30_FileReflectsTree ==
    /\ Exporting({"export_upgrade"})
    /\ last.path = <<>>
    /\ WellFormed(FileBefore)
    => \A path \in SectionPaths(root, <<>>) :
           \A i \in DOMAIN SectionAt(root, path).opts :
               Reflected(Parsed(FileAfter), path,
                         SectionAt(root, path).opts[i])

-----------------------------------------------------------------------------
(* C29: when the root section of a tree built by merges is exported with a *)
(* policy that adds into a file which is empty or does not exist, a fresh  *)
(* store with the same flags parses the file, and its tree is the tree     *)
(* exported: the same sections, those without options too, with the same   *)
(* options and values in the same order.                                   *)

C29_ExportedTreeParsesBack ==
    /\ Exporting({"export_upgrade", "export_reset", "export_add"})
    /\ last.path = <<>>
    /\ EmptyBefore
    => /\ Parsed(FileAfter).exc = NoExc
       /\ Parsed(FileAfter).root = root

====
